---- MODULE Spec2Model ----
(***************************************************************************)
(* lazyadb: the reactive control loop of src/app.rs together with the      *)
(* components it drives (components/panes/devices.rs,                      *)
(* components/panes/content.rs, components/modals/help.rs,                 *)
(* components/modals/emulators.rs) and the roster join of adb/client.rs.   *)
(*                                                                         *)
(* Option<T> is modelled as a sequence: <<>> is None, <<x>> is Some(x).    *)
(* An Instant is modelled by the whole seconds elapsed since it was taken, *)
(* saturating at the refresh interval (the code only compares the elapsed  *)
(* time against that interval).                                            *)
(***************************************************************************)
EXTENDS Integers, Sequences, FiniteSets, TLC

(***************************************************************************)
(* Bounds                                                                  *)
(***************************************************************************)
\* longest device list the bridge reports
MaxLen == 2
\* longest list of declared AVD names the bridge reports
MaxAvds == 1

(***************************************************************************)
(* Option helpers                                                          *)
(***************************************************************************)
None == <<>>

Some(x) == <<x>>

Min(a, b) == IF a <= b THEN a ELSE b

(***************************************************************************)
(* Devices (adb/device.rs)                                                 *)
(***************************************************************************)
EmulatorSerials == {"emulator-5554"}

TcpSerials == {"192.168.1.1:5555"}

UsbSerials == {"USB001"}

Serials == EmulatorSerials \cup TcpSerials \cup UsbSerials

\* parse_device_list: the connection kind is derived from the serial
ConnectionTypeOf(serial) ==
    IF serial \in EmulatorSerials THEN "Emulator"
    ELSE IF serial \in TcpSerials THEN "Tcp"
    ELSE "Usb"

Device(serial) == [serial |-> serial, connection_type |-> ConnectionTypeOf(serial)]

\* the lists adb.devices() can return: serials are unique within one list
DeviceLists ==
    { l \in UNION { [1..n -> { Device(s) : s \in Serials }] : n \in 0..MaxLen } :
        \A i, j \in 1..Len(l) : l[i].serial = l[j].serial => i = j }

(***************************************************************************)
(* Emulator images (adb/emulator.rs)                                       *)
(***************************************************************************)
AvdNames == {"Pixel_4", "Pixel_6"}

Avd(name, running_serial) == [name |-> name, running_serial |-> running_serial]

is_running(avd) == avd.running_serial # None

\* the lists adb.list_avds().unwrap_or_default() can return
AvdNameLists == UNION { [1..n -> AvdNames] : n \in 0..MaxAvds }

\* the answers of adb.get_avd_name for each emulator serial (None on failure)
AvdNameAnswers == [EmulatorSerials -> {None} \cup { Some(n) : n \in AvdNames }]

(***************************************************************************)
(* Panes (components/panes/mod.rs)                                         *)
(***************************************************************************)
PANE_COUNT == 3

PaneIndex(p) == CASE p = "DeviceList" -> 0 [] p = "Emulators" -> 1 [] p = "Content" -> 2

from_index(i) == CASE i = 0 -> "DeviceList" [] i = 1 -> "Emulators" [] i = 2 -> "Content"

Panes == {"DeviceList", "Emulators", "Content"}

\* mutant: the cycle the help screen prints, Devices -> Content -> Devices
PaneNext_two_panes(p) == IF p = "DeviceList" THEN "Content" ELSE "DeviceList"

PaneNext(p) == from_index((PaneIndex(p) + 1) % PANE_COUNT)

PanePrev(p) == from_index((PaneIndex(p) + PANE_COUNT - 1) % PANE_COUNT)

(***************************************************************************)
(* Keys.  The key-binding configuration is an opaque lookup table: a key   *)
(* is modelled by what the three lookups the code performs answer for it.  *)
(***************************************************************************)
NoBinding == "none"

GlobalActions == {"Quit", "CycleFocus", "CycleFocusBackwards", "ToggleHelp", "CloseModal"}

DeviceActions == {"Up", "Down", "Disconnect", "Refresh", "OpenEmulators"}

EmulatorActions == {"Up", "Down", "Select", "Kill"}

Keys == [global : GlobalActions \cup {NoBinding},
         device : DeviceActions \cup {NoBinding},
         emulator : EmulatorActions \cup {NoBinding}]

\* App::lookup_global_action
lookup_global_action(key) == IF key.global \in GlobalActions THEN Some(key.global) ELSE None

(***************************************************************************)
(* Messages (msg.rs) and commands (command.rs)                             *)
(***************************************************************************)
MsgTick == [type |-> "Tick"]

MsgDevicesUpdated(l) == [type |-> "DevicesUpdated", devices |-> l]

MsgDeviceSelected(d) == [type |-> "DeviceSelected", device |-> d]

MsgDeviceInfoUpdated(info) == [type |-> "DeviceInfoUpdated", info |-> info]

MsgKeyPress(k) == [type |-> "KeyPress", key |-> k]

CmdStartEmulator(name) == [type |-> "StartEmulator", name |-> name]

CmdKillEmulator(serial) == [type |-> "KillEmulator", serial |-> serial]

CmdOpenEmulatorsModal == [type |-> "OpenEmulatorsModal"]

CmdCloseEmulatorsModal == [type |-> "CloseEmulatorsModal"]

CmdRefreshDevices == [type |-> "RefreshDevices"]

CmdRefreshDeviceInfo(serial) == [type |-> "RefreshDeviceInfo", serial |-> serial]

CmdDisconnectDevice(serial) == [type |-> "DisconnectDevice", serial |-> serial]

CmdDeviceSelected(d) == [type |-> "DeviceSelected", device |-> d]

CmdFocus(p) == [type |-> "Focus", pane |-> p]

(***************************************************************************)
(* DevicesPane (components/panes/devices.rs)                               *)
(***************************************************************************)
\* seconds
REFRESH_INTERVAL == 2

\* DevicesPane::new
DevicesPane_new(devs) ==
    [devices |-> devs,
     selected_index |-> 0,
     last_refresh |-> 0,
     last_selected_serial |-> None]

\* Vec::get(selected_index); the model's sequences are 1-based
selected_device(p) ==
    IF p.selected_index < Len(p.devices) THEN Some(p.devices[p.selected_index + 1]) ELSE None

\* Option::map(|d| d.serial.clone())
serial_of(optdev) == IF optdev = None THEN None ELSE Some(optdev[1].serial)

\* usize::saturating_sub(1)
select_previous(p) ==
    [p EXCEPT !.selected_index = IF p.selected_index = 0 THEN 0 ELSE p.selected_index - 1]

select_next(p) ==
    IF p.devices # <<>>
    THEN [p EXCEPT !.selected_index = Min(p.selected_index + 1, Len(p.devices) - 1)]
    ELSE p

\* mutant: the index is left alone when the list is replaced
clamp_selection_unclamped(p) == p

\* mutant: the index is reset instead of clamped
clamp_selection_reset(p) == [p EXCEPT !.selected_index = 0]

\* mutant: clamps to len instead of len - 1
clamp_selection_off_by_one(p) ==
    IF p.devices = <<>>
    THEN [p EXCEPT !.selected_index = 0]
    ELSE [p EXCEPT !.selected_index = Min(p.selected_index, Len(p.devices))]

clamp_selection(p) ==
    IF p.devices = <<>>
    THEN [p EXCEPT !.selected_index = 0]
    ELSE [p EXCEPT !.selected_index = Min(p.selected_index, Len(p.devices) - 1)]

\* mutant: an empty cursor is recorded but not announced
selection_changed_command_skip_empty(p) ==
    LET new_serial == serial_of(selected_device(p)) IN
    IF new_serial # p.last_selected_serial
    THEN [pane |-> [p EXCEPT !.last_selected_serial = new_serial],
          cmd |-> IF new_serial = None THEN None
                  ELSE Some(CmdDeviceSelected(selected_device(p)))]
    ELSE [pane |-> p, cmd |-> None]

\* mutant: the command carries the first device, not the selected one
selection_changed_command_first(p) ==
    LET new_serial == serial_of(selected_device(p)) IN
    IF new_serial # p.last_selected_serial
    THEN [pane |-> [p EXCEPT !.last_selected_serial = new_serial],
          cmd |-> Some(CmdDeviceSelected(
                          IF p.devices = <<>> THEN None ELSE Some(p.devices[1])))]
    ELSE [pane |-> p, cmd |-> None]

\* mutant: announces on every call
selection_changed_command_always(p) ==
    [pane |-> [p EXCEPT !.last_selected_serial = serial_of(selected_device(p))],
     cmd |-> Some(CmdDeviceSelected(selected_device(p)))]

\* mutant: the announced serial is not recorded
selection_changed_command_unrecorded(p) ==
    LET new_serial == serial_of(selected_device(p)) IN
    IF new_serial # p.last_selected_serial
    THEN [pane |-> p, cmd |-> Some(CmdDeviceSelected(selected_device(p)))]
    ELSE [pane |-> p, cmd |-> None]

\* returns the pane after the call and the Option<Command>
selection_changed_command(p) ==
    LET new_serial == serial_of(selected_device(p)) IN
    IF new_serial # p.last_selected_serial
    THEN [pane |-> [p EXCEPT !.last_selected_serial = new_serial],
          cmd |-> Some(CmdDeviceSelected(selected_device(p)))]
    ELSE [pane |-> p, cmd |-> None]

\* mutant: a USB device is disconnected like a TCP one
disconnect_command_usb_too(p) ==
    LET device == selected_device(p) IN
    IF device = None THEN None
    ELSE CASE device[1].connection_type = "Emulator" -> Some(CmdKillEmulator(device[1].serial))
           [] OTHER -> Some(CmdDisconnectDevice(device[1].serial))

disconnect_command(p) ==
    LET device == selected_device(p) IN
    IF device = None THEN None
    ELSE CASE device[1].connection_type = "Emulator" -> Some(CmdKillEmulator(device[1].serial))
           [] device[1].connection_type = "Tcp" -> Some(CmdDisconnectDevice(device[1].serial))
           [] device[1].connection_type = "Usb" -> None

\* an Option<Command> turned into the Vec<Command> the handlers return
CmdVec(optcmd) == optcmd

\* mutant: Disconnect takes the selected device off the list right away
DevicesPane_handle_action_optimistic(p, action) ==
    CASE action = "Up" ->
           LET r == selection_changed_command(select_previous(p)) IN
           [pane |-> r.pane, cmds |-> CmdVec(r.cmd)]
      [] action = "Down" ->
           LET r == selection_changed_command(select_next(p)) IN
           [pane |-> r.pane, cmds |-> CmdVec(r.cmd)]
      [] action = "Disconnect" ->
           [pane |-> IF disconnect_command(p) = None THEN p
                     ELSE [p EXCEPT !.devices =
                             [i \in 1..(Len(p.devices) - 1) |->
                                IF i <= p.selected_index THEN p.devices[i]
                                ELSE p.devices[i + 1]]],
            cmds |-> CmdVec(disconnect_command(p))]
      [] action = "Refresh" -> [pane |-> p, cmds |-> <<CmdRefreshDevices>>]
      [] action = "OpenEmulators" -> [pane |-> p, cmds |-> <<CmdOpenEmulatorsModal>>]

\* DevicesPane::handle_action; returns the pane after the call and the commands
DevicesPane_handle_action(p, action) ==
    CASE action = "Up" ->
           LET r == selection_changed_command(select_previous(p)) IN
           [pane |-> r.pane, cmds |-> CmdVec(r.cmd)]
      [] action = "Down" ->
           LET r == selection_changed_command(select_next(p)) IN
           [pane |-> r.pane, cmds |-> CmdVec(r.cmd)]
      [] action = "Disconnect" -> [pane |-> p, cmds |-> CmdVec(disconnect_command(p))]
      [] action = "Refresh" -> [pane |-> p, cmds |-> <<CmdRefreshDevices>>]
      [] action = "OpenEmulators" -> [pane |-> p, cmds |-> <<CmdOpenEmulatorsModal>>]

\* mutant: a due Tick asks for a refresh and leaves the timer running
DevicesPane_update_no_reset(p, msg) ==
    CASE msg.type = "KeyPress" ->
           IF msg.key.device \in DeviceActions
           THEN DevicesPane_handle_action(p, msg.key.device)
           ELSE [pane |-> p, cmds |-> <<>>]
      [] msg.type = "Tick" ->
           IF p.last_refresh >= REFRESH_INTERVAL
           THEN [pane |-> p, cmds |-> <<CmdRefreshDevices>>]
           ELSE [pane |-> p, cmds |-> <<>>]
      [] msg.type = "DevicesUpdated" ->
           LET r == selection_changed_command(
                        clamp_selection([p EXCEPT !.devices = msg.devices])) IN
           [pane |-> r.pane, cmds |-> CmdVec(r.cmd)]
      [] OTHER -> [pane |-> p, cmds |-> <<>>]

\* Component::update for DevicesPane
DevicesPane_update(p, msg) ==
    CASE msg.type = "KeyPress" ->
           IF msg.key.device \in DeviceActions
           THEN DevicesPane_handle_action(p, msg.key.device)
           ELSE [pane |-> p, cmds |-> <<>>]
      [] msg.type = "Tick" ->
           IF p.last_refresh >= REFRESH_INTERVAL
           THEN [pane |-> [p EXCEPT !.last_refresh = 0], cmds |-> <<CmdRefreshDevices>>]
           ELSE [pane |-> p, cmds |-> <<>>]
      [] msg.type = "DevicesUpdated" ->
           LET r == selection_changed_command(
                        clamp_selection([p EXCEPT !.devices = msg.devices])) IN
           [pane |-> r.pane, cmds |-> CmdVec(r.cmd)]
      [] OTHER -> [pane |-> p, cmds |-> <<>>]

(***************************************************************************)
(* ContentPane (components/panes/content.rs)                               *)
(***************************************************************************)
\* seconds
DEVICE_INFO_REFRESH_INTERVAL == 2

ContentPane_new == [device_info |-> None, selected_serial |-> None, last_refresh |-> 0]

\* the telemetry record, reduced to the field the control loop reads
DeviceInfo(serial) == [serial |-> serial]

\* mutant: a new roster throws the held telemetry away
ContentPane_update_clear_on_roster(c, msg) ==
    CASE msg.type = "Tick" ->
           IF c.selected_serial # None /\ c.last_refresh >= DEVICE_INFO_REFRESH_INTERVAL
           THEN [pane |-> [c EXCEPT !.last_refresh = 0],
                 cmds |-> <<CmdRefreshDeviceInfo(c.selected_serial[1])>>]
           ELSE [pane |-> c, cmds |-> <<>>]
      [] msg.type = "DeviceSelected" ->
           LET new_serial == serial_of(msg.device) IN
           IF new_serial # c.selected_serial
           THEN IF new_serial # None
                THEN [pane |-> [c EXCEPT !.selected_serial = new_serial,
                                         !.device_info = None,
                                         !.last_refresh = 0],
                      cmds |-> <<CmdRefreshDeviceInfo(new_serial[1])>>]
                ELSE [pane |-> [c EXCEPT !.selected_serial = new_serial,
                                         !.device_info = None],
                      cmds |-> <<>>]
           ELSE [pane |-> c, cmds |-> <<>>]
      [] msg.type = "DeviceInfoUpdated" ->
           IF c.selected_serial = Some(msg.info.serial)
           THEN [pane |-> [c EXCEPT !.device_info = Some(msg.info)], cmds |-> <<>>]
           ELSE [pane |-> c, cmds |-> <<>>]
      [] msg.type = "DevicesUpdated" ->
           [pane |-> [c EXCEPT !.device_info = None], cmds |-> <<>>]
      [] OTHER -> [pane |-> c, cmds |-> <<>>]

\* mutant: a DeviceInfoUpdated is stored whatever serial it carries
ContentPane_update_any_serial(c, msg) ==
    CASE msg.type = "Tick" ->
           IF c.selected_serial # None /\ c.last_refresh >= DEVICE_INFO_REFRESH_INTERVAL
           THEN [pane |-> [c EXCEPT !.last_refresh = 0],
                 cmds |-> <<CmdRefreshDeviceInfo(c.selected_serial[1])>>]
           ELSE [pane |-> c, cmds |-> <<>>]
      [] msg.type = "DeviceSelected" ->
           LET new_serial == serial_of(msg.device) IN
           IF new_serial # c.selected_serial
           THEN IF new_serial # None
                THEN [pane |-> [c EXCEPT !.selected_serial = new_serial,
                                         !.device_info = None,
                                         !.last_refresh = 0],
                      cmds |-> <<CmdRefreshDeviceInfo(new_serial[1])>>]
                ELSE [pane |-> [c EXCEPT !.selected_serial = new_serial,
                                         !.device_info = None],
                      cmds |-> <<>>]
           ELSE [pane |-> c, cmds |-> <<>>]
      [] msg.type = "DeviceInfoUpdated" ->
           [pane |-> [c EXCEPT !.device_info = Some(msg.info)], cmds |-> <<>>]
      [] OTHER -> [pane |-> c, cmds |-> <<>>]

\* mutant: a DeviceSelected carrying no device is ignored
ContentPane_update_keep_on_none(c, msg) ==
    CASE msg.type = "Tick" ->
           IF c.selected_serial # None /\ c.last_refresh >= DEVICE_INFO_REFRESH_INTERVAL
           THEN [pane |-> [c EXCEPT !.last_refresh = 0],
                 cmds |-> <<CmdRefreshDeviceInfo(c.selected_serial[1])>>]
           ELSE [pane |-> c, cmds |-> <<>>]
      [] msg.type = "DeviceSelected" ->
           LET new_serial == serial_of(msg.device) IN
           IF new_serial # c.selected_serial /\ new_serial # None
           THEN [pane |-> [c EXCEPT !.selected_serial = new_serial,
                                    !.device_info = None,
                                    !.last_refresh = 0],
                 cmds |-> <<CmdRefreshDeviceInfo(new_serial[1])>>]
           ELSE [pane |-> c, cmds |-> <<>>]
      [] msg.type = "DeviceInfoUpdated" ->
           IF c.selected_serial = Some(msg.info.serial)
           THEN [pane |-> [c EXCEPT !.device_info = Some(msg.info)], cmds |-> <<>>]
           ELSE [pane |-> c, cmds |-> <<>>]
      [] OTHER -> [pane |-> c, cmds |-> <<>>]

\* mutant: stored telemetry is asked for again at once
ContentPane_update_repoll(c, msg) ==
    CASE msg.type = "Tick" ->
           IF c.selected_serial # None /\ c.last_refresh >= DEVICE_INFO_REFRESH_INTERVAL
           THEN [pane |-> [c EXCEPT !.last_refresh = 0],
                 cmds |-> <<CmdRefreshDeviceInfo(c.selected_serial[1])>>]
           ELSE [pane |-> c, cmds |-> <<>>]
      [] msg.type = "DeviceSelected" ->
           LET new_serial == serial_of(msg.device) IN
           IF new_serial # c.selected_serial
           THEN IF new_serial # None
                THEN [pane |-> [c EXCEPT !.selected_serial = new_serial,
                                         !.device_info = None,
                                         !.last_refresh = 0],
                      cmds |-> <<CmdRefreshDeviceInfo(new_serial[1])>>]
                ELSE [pane |-> [c EXCEPT !.selected_serial = new_serial,
                                         !.device_info = None],
                      cmds |-> <<>>]
           ELSE [pane |-> c, cmds |-> <<>>]
      [] msg.type = "DeviceInfoUpdated" ->
           IF c.selected_serial = Some(msg.info.serial)
           THEN [pane |-> [c EXCEPT !.device_info = Some(msg.info)],
                 cmds |-> <<CmdRefreshDeviceInfo(msg.info.serial)>>]
           ELSE [pane |-> c, cmds |-> <<>>]
      [] OTHER -> [pane |-> c, cmds |-> <<>>]

\* mutant: losing the selection keeps the telemetry on display
ContentPane_update_keep_info(c, msg) ==
    CASE msg.type = "Tick" ->
           IF c.selected_serial # None /\ c.last_refresh >= DEVICE_INFO_REFRESH_INTERVAL
           THEN [pane |-> [c EXCEPT !.last_refresh = 0],
                 cmds |-> <<CmdRefreshDeviceInfo(c.selected_serial[1])>>]
           ELSE [pane |-> c, cmds |-> <<>>]
      [] msg.type = "DeviceSelected" ->
           LET new_serial == serial_of(msg.device) IN
           IF new_serial # c.selected_serial
           THEN IF new_serial # None
                THEN [pane |-> [c EXCEPT !.selected_serial = new_serial,
                                         !.device_info = None,
                                         !.last_refresh = 0],
                      cmds |-> <<CmdRefreshDeviceInfo(new_serial[1])>>]
                ELSE [pane |-> [c EXCEPT !.selected_serial = new_serial],
                      cmds |-> <<>>]
           ELSE [pane |-> c, cmds |-> <<>>]
      [] msg.type = "DeviceInfoUpdated" ->
           IF c.selected_serial = Some(msg.info.serial)
           THEN [pane |-> [c EXCEPT !.device_info = Some(msg.info)], cmds |-> <<>>]
           ELSE [pane |-> c, cmds |-> <<>>]
      [] OTHER -> [pane |-> c, cmds |-> <<>>]

ContentPane_update(c, msg) ==
    CASE msg.type = "Tick" ->
           IF c.selected_serial # None /\ c.last_refresh >= DEVICE_INFO_REFRESH_INTERVAL
           THEN [pane |-> [c EXCEPT !.last_refresh = 0],
                 cmds |-> <<CmdRefreshDeviceInfo(c.selected_serial[1])>>]
           ELSE [pane |-> c, cmds |-> <<>>]
      [] msg.type = "DeviceSelected" ->
           LET new_serial == serial_of(msg.device) IN
           IF new_serial # c.selected_serial
           THEN IF new_serial # None
                THEN [pane |-> [c EXCEPT !.selected_serial = new_serial,
                                         !.device_info = None,
                                         !.last_refresh = 0],
                      cmds |-> <<CmdRefreshDeviceInfo(new_serial[1])>>]
                ELSE [pane |-> [c EXCEPT !.selected_serial = new_serial,
                                         !.device_info = None],
                      cmds |-> <<>>]
           ELSE [pane |-> c, cmds |-> <<>>]
      [] msg.type = "DeviceInfoUpdated" ->
           IF c.selected_serial = Some(msg.info.serial)
           THEN [pane |-> [c EXCEPT !.device_info = Some(msg.info)], cmds |-> <<>>]
           ELSE [pane |-> c, cmds |-> <<>>]
      [] OTHER -> [pane |-> c, cmds |-> <<>>]

(***************************************************************************)
(* Modals (components/modals)                                              *)
(***************************************************************************)
NoModal == [kind |-> "None"]

\* HelpModal::new
HelpModal_new == [kind |-> "Help"]

\* EmulatorsModal::new
EmulatorsModal_new(items) == [kind |-> "Emulators", items |-> items, selected_index |-> 0]

\* Component::update for HelpModal
HelpModal_update(m, msg) == [modal |-> m, cmds |-> <<>>]

\* Component::update for EmulatorsModal
EmulatorsModal_update(m, msg) == [modal |-> m, cmds |-> <<>>]

\* mutant: Select starts the highlighted image whether it runs or not
EmulatorsModal_handle_key_always_start(m, key) ==
    LET action == key.emulator
        avd == IF m.selected_index < Len(m.items)
               THEN Some(m.items[m.selected_index + 1]) ELSE None
    IN
    CASE action = "Up" ->
           [modal |-> [m EXCEPT !.selected_index =
                          IF m.selected_index = 0 THEN 0 ELSE m.selected_index - 1],
            cmds |-> <<>>]
      [] action = "Down" ->
           [modal |-> IF m.items # <<>>
                      THEN [m EXCEPT !.selected_index =
                               Min(m.selected_index + 1, Len(m.items) - 1)]
                      ELSE m,
            cmds |-> <<>>]
      [] action = "Kill" ->
           [modal |-> m,
            cmds |-> IF avd # None /\ avd[1].running_serial # None
                     THEN <<CmdKillEmulator(avd[1].running_serial[1])>>
                     ELSE <<>>]
      [] action = "Select" ->
           [modal |-> m,
            cmds |-> IF avd = None THEN <<>> ELSE <<CmdStartEmulator(avd[1].name)>>]
      [] OTHER -> [modal |-> m, cmds |-> <<>>]

\* Component::handle_key for EmulatorsModal
EmulatorsModal_handle_key(m, key) ==
    LET action == key.emulator
        avd == IF m.selected_index < Len(m.items)
               THEN Some(m.items[m.selected_index + 1]) ELSE None
    IN
    CASE action = "Up" ->
           [modal |-> [m EXCEPT !.selected_index =
                          IF m.selected_index = 0 THEN 0 ELSE m.selected_index - 1],
            cmds |-> <<>>]
      [] action = "Down" ->
           [modal |-> IF m.items # <<>>
                      THEN [m EXCEPT !.selected_index =
                               Min(m.selected_index + 1, Len(m.items) - 1)]
                      ELSE m,
            cmds |-> <<>>]
      [] action = "Kill" ->
           [modal |-> m,
            cmds |-> IF avd # None /\ avd[1].running_serial # None
                     THEN <<CmdKillEmulator(avd[1].running_serial[1])>>
                     ELSE <<>>]
      [] action = "Select" ->
           [modal |-> m,
            cmds |-> IF avd = None THEN <<>>
                     ELSE IF is_running(avd[1])
                          THEN <<CmdCloseEmulatorsModal, CmdFocus("Content")>>
                          ELSE <<CmdStartEmulator(avd[1].name)>>]
      [] OTHER -> [modal |-> m, cmds |-> <<>>]

(***************************************************************************)
(* AdbClient::avds_with_status (adb/client.rs)                             *)
(***************************************************************************)
\* mutant: every device is asked for its AVD name
running_emulators_unfiltered(devs) == devs

\* devices.iter().filter(|d| d.connection_type == Emulator)
RECURSIVE running_emulators(_)
running_emulators(devs) ==
    IF devs = <<>> THEN <<>>
    ELSE IF Head(devs).connection_type = "Emulator"
         THEN <<Head(devs)>> \o running_emulators(Tail(devs))
         ELSE running_emulators(Tail(devs))

\* the (serial, name) pairs of the emulators whose name query answered
RECURSIVE serial_to_avd(_, _)
serial_to_avd(emus, answers) ==
    IF emus = <<>> THEN <<>>
    ELSE IF answers[Head(emus).serial] # None
         THEN <<[serial |-> Head(emus).serial, name |-> answers[Head(emus).serial][1]]>>
                  \o serial_to_avd(Tail(emus), answers)
         ELSE serial_to_avd(Tail(emus), answers)

\* iter().find(|(_, avd_name)| avd_name == &name).map(|(serial, _)| serial)
RECURSIVE find_serial(_, _)
find_serial(pairs, name) ==
    IF pairs = <<>> THEN None
    ELSE IF Head(pairs).name = name THEN Some(Head(pairs).serial)
         ELSE find_serial(Tail(pairs), name)

\* the declared names joined with the running serials
declared_avds(names, pairs) ==
    [i \in 1..Len(names) |-> Avd(names[i], find_serial(pairs, names[i]))]

\* mutant: a running emulator is appended unless an entry carries its serial
RECURSIVE append_undeclared_per_serial(_, _)
append_undeclared_per_serial(avds, pairs) ==
    IF pairs = <<>> THEN avds
    ELSE IF \E i \in 1..Len(avds) : avds[i].running_serial = Some(Head(pairs).serial)
         THEN append_undeclared_per_serial(avds, Tail(pairs))
         ELSE append_undeclared_per_serial(
                  Append(avds, Avd(Head(pairs).name, Some(Head(pairs).serial))),
                  Tail(pairs))

\* running emulators whose name is not in the list yet are appended
RECURSIVE append_undeclared(_, _)
append_undeclared(avds, pairs) ==
    IF pairs = <<>> THEN avds
    ELSE IF \E i \in 1..Len(avds) : avds[i].name = Head(pairs).name
         THEN append_undeclared(avds, Tail(pairs))
         ELSE append_undeclared(
                  Append(avds, Avd(Head(pairs).name, Some(Head(pairs).serial))),
                  Tail(pairs))

avds_with_status(devs, names, answers) ==
    LET pairs == serial_to_avd(running_emulators(devs), answers) IN
    append_undeclared(declared_avds(names, pairs), pairs)

(***************************************************************************)
(* App (app.rs)                                                            *)
(***************************************************************************)
VARIABLES
    running,    \* App.running
    focus,      \* App.focus
    devices,    \* App.devices, the DevicesPane
    content,    \* App.content, the ContentPane
    modal,      \* App.modal; NoModal is Option::None
    queue,      \* the unbounded channel msg_tx / msg_rx, oldest message first
    pc,         \* position of App::run: "events", "actions" or "done"
    cmds,       \* history: the commands handed to execute_commands by the last step
    hist,       \* history: which messages the device pane has handled so far
    last        \* history: what the last step handled and who received it

vars == <<running, focus, devices, content, modal, queue, pc, cmds, hist, last>>

\* everything the program itself holds (no history variables)
appvars == <<running, focus, devices, content, modal, queue>>

\* the outcome of the bridge calls one execute_commands run makes:
\*   devices: adb.devices(), None when it fails
\*   names:   adb.list_avds().unwrap_or_default()
\*   answers: adb.get_avd_name per emulator serial
\*   ok:      whether start_emulator, kill_emulator and disconnect_device
\*            return Ok
Bridge(devs, names, answers, ok) ==
    [devices |-> devs, names |-> names, answers |-> answers, ok |-> ok]

\* the commands whose arm calls start_emulator, kill_emulator or
\* disconnect_device and drops the Result (let _ = ...)
DroppedResultCommands == {"StartEmulator", "KillEmulator", "DisconnectDevice"}

HasDroppedResult(cs) == \E i \in 1..Len(cs) : cs[i].type \in DroppedResultCommands

HasCmd(cs, type) == \E i \in 1..Len(cs) : cs[i].type = type

\* the bridge outcomes that matter for a command list; a call that is not
\* made has no outcome to choose
BridgeOutcomes(cs) ==
    { Bridge(d, n, a, ok) :
        d \in (IF HasCmd(cs, "RefreshDevices")
               THEN {None} \cup { Some(l) : l \in DeviceLists } ELSE {None}),
        n \in (IF HasCmd(cs, "OpenEmulatorsModal") THEN AvdNameLists ELSE {<<>>}),
        a \in (IF HasCmd(cs, "OpenEmulatorsModal")
               THEN AvdNameAnswers ELSE {[s \in EmulatorSerials |-> None]}),
        ok \in (IF HasDroppedResult(cs) THEN BOOLEAN ELSE {TRUE}) }

\* history: which bridge calls of an execute_commands run failed
Failures(cs, bridge) ==
    [refresh |-> HasCmd(cs, "RefreshDevices") /\ bridge.devices = None,
     call |-> HasDroppedResult(cs) /\ ~bridge.ok]

\* mutant: DeviceSelected is sent twice
execute_command_selected_twice(cmd, st, items, bridge) ==
    CASE cmd.type = "OpenEmulatorsModal" ->
           [st EXCEPT !.modal = EmulatorsModal_new(
                                    avds_with_status(items, bridge.names, bridge.answers))]
      [] cmd.type = "CloseEmulatorsModal" -> [st EXCEPT !.modal = NoModal]
      [] cmd.type = "Focus" -> [st EXCEPT !.focus = cmd.pane]
      [] cmd.type = "RefreshDevices" ->
           IF bridge.devices # None
           THEN [st EXCEPT !.queue = Append(@, MsgDevicesUpdated(bridge.devices[1]))]
           ELSE st
      [] cmd.type = "RefreshDeviceInfo" ->
           IF \E i \in 1..Len(items) : items[i].serial = cmd.serial
           THEN [st EXCEPT !.queue = Append(@, MsgDeviceInfoUpdated(DeviceInfo(cmd.serial)))]
           ELSE st
      [] cmd.type = "DeviceSelected" ->
           [st EXCEPT !.queue = Append(Append(@, MsgDeviceSelected(cmd.device)),
                                       MsgDeviceSelected(cmd.device))]
      [] OTHER -> st

\* mutant: the result of RefreshDeviceInfo and DeviceSelected is not sent
\* through the channel
execute_command_unqueued(cmd, st, items, bridge) ==
    CASE cmd.type = "OpenEmulatorsModal" ->
           [st EXCEPT !.modal = EmulatorsModal_new(
                                    avds_with_status(items, bridge.names, bridge.answers))]
      [] cmd.type = "CloseEmulatorsModal" -> [st EXCEPT !.modal = NoModal]
      [] cmd.type = "Focus" -> [st EXCEPT !.focus = cmd.pane]
      [] cmd.type = "RefreshDevices" ->
           IF bridge.devices # None
           THEN [st EXCEPT !.queue = Append(@, MsgDevicesUpdated(bridge.devices[1]))]
           ELSE st
      [] OTHER -> st

\* mutant: a failed adb.devices() is reported as an empty roster
execute_command_failed_refresh_empties(cmd, st, items, bridge) ==
    CASE cmd.type = "OpenEmulatorsModal" ->
           [st EXCEPT !.modal = EmulatorsModal_new(
                                    avds_with_status(items, bridge.names, bridge.answers))]
      [] cmd.type = "CloseEmulatorsModal" -> [st EXCEPT !.modal = NoModal]
      [] cmd.type = "Focus" -> [st EXCEPT !.focus = cmd.pane]
      [] cmd.type = "RefreshDevices" ->
           IF bridge.devices # None
           THEN [st EXCEPT !.queue = Append(@, MsgDevicesUpdated(bridge.devices[1]))]
           ELSE [st EXCEPT !.queue = Append(@, MsgDevicesUpdated(<<>>))]
      [] cmd.type = "RefreshDeviceInfo" ->
           IF \E i \in 1..Len(items) : items[i].serial = cmd.serial
           THEN [st EXCEPT !.queue = Append(@, MsgDeviceInfoUpdated(DeviceInfo(cmd.serial)))]
           ELSE st
      [] cmd.type = "DeviceSelected" ->
           [st EXCEPT !.queue = Append(@, MsgDeviceSelected(cmd.device))]
      [] OTHER -> st

\* one arm of the match in App::execute_commands; st holds the fields the
\* commands can change, items is self.devices.items
execute_command(cmd, st, items, bridge) ==
    CASE cmd.type = "StartEmulator" -> st
      [] cmd.type = "KillEmulator" -> st
      [] cmd.type = "OpenEmulatorsModal" ->
           [st EXCEPT !.modal = EmulatorsModal_new(
                                    avds_with_status(items, bridge.names, bridge.answers))]
      [] cmd.type = "CloseEmulatorsModal" -> [st EXCEPT !.modal = NoModal]
      [] cmd.type = "DisconnectDevice" -> st
      [] cmd.type = "Focus" -> [st EXCEPT !.focus = cmd.pane]
      [] cmd.type = "RefreshDevices" ->
           IF bridge.devices # None
           THEN [st EXCEPT !.queue = Append(@, MsgDevicesUpdated(bridge.devices[1]))]
           ELSE st
      [] cmd.type = "RefreshDeviceInfo" ->
           IF \E i \in 1..Len(items) : items[i].serial = cmd.serial
           THEN [st EXCEPT !.queue = Append(@, MsgDeviceInfoUpdated(DeviceInfo(cmd.serial)))]
           ELSE st
      [] cmd.type = "DeviceSelected" ->
           [st EXCEPT !.queue = Append(@, MsgDeviceSelected(cmd.device))]

\* App::execute_commands: the commands in order
RECURSIVE execute_commands(_, _, _, _)
execute_commands(cs, st, items, bridge) ==
    IF cs = <<>> THEN st
    ELSE execute_commands(Tail(cs), execute_command(Head(cs), st, items, bridge),
                          items, bridge)

\* mutant: the device pane is the focused component whatever the focus
focused_pane_devices_only(f) == "DeviceList"

\* App::focused_pane: the match has an arm for DeviceList and for Content only
focused_pane(f) ==
    CASE f = "DeviceList" -> "DeviceList"
      [] f = "Content" -> "Content"
      [] OTHER -> "none"

\* history: what a step handled (op, key, msg), which components' update it
\* invoked (recv) and what the program held just before it; same_roster says
\* that the step handled a DevicesUpdated carrying the list the pane held;
\* calls lists the update calls of a broadcast in the order they were made;
\* failed says which bridge calls the step's commands made in vain; args
\* holds the arguments, and the result, of a function called on its own
Step(op, key, msg, recv) ==
    [op |-> op, key |-> key, msg |-> msg, recv |-> recv,
     modal |-> modal.kind,
     focus |-> focus,
     selected_index |-> devices.selected_index,
     last_selected_serial |-> devices.last_selected_serial,
     cursor |-> serial_of(selected_device(devices)),
     same_roster |-> msg # None /\ msg[1].type = "DevicesUpdated"
                        /\ msg[1].devices = devices.devices,
     fed |-> hist.fed,
     handled |-> hist.handled,
     calls |-> <<>>,
     failed |-> [refresh |-> FALSE, call |-> FALSE],
     args |-> None]

\* history: fed is true while the last message that moved the device pane's
\* cursor or list was a DevicesUpdated; handled is true once the pane has
\* handled an Up, a Down or a DevicesUpdated; launching holds the AVD names
\* the open picker asked to start since the device pane last got a roster
HistAfter(h, received, msg) ==
    IF ~received THEN h
    ELSE IF msg.type = "DevicesUpdated"
         THEN [fed |-> TRUE, handled |-> TRUE, launching |-> {}]
    ELSE IF msg.type = "KeyPress" /\ msg.key.device \in {"Up", "Down"}
         THEN [h EXCEPT !.fed = FALSE, !.handled = TRUE]
    ELSE h

\* history: the launches a picker asked for are forgotten with the picker
PickerHist(h, m) == IF m.kind = "Emulators" THEN h ELSE [h EXCEPT !.launching = {}]

Init ==
    /\ running = TRUE
    /\ focus = "DeviceList"
    /\ \E l \in DeviceLists : devices = DevicesPane_new(l)
    /\ content = ContentPane_new
    /\ modal = NoModal
    /\ queue = <<>>
    /\ pc = "events"
    /\ cmds = <<>>
    /\ hist = [fed |-> FALSE, handled |-> FALSE, launching |-> {}]
    /\ last = Step("new", None, None, {})

\* the fields execute_commands can change, after running cs
Executed(cs, m, f, q, items, bridge) ==
    execute_commands(cs, [modal |-> m, focus |-> f, queue |-> q], items, bridge)

\* App::handle_global_action; app holds running, focus and modal
handle_global_action(action, app) ==
    CASE action = "Quit" -> [app EXCEPT !.running = FALSE]
      [] action = "CycleFocus" -> [app EXCEPT !.focus = PaneNext(app.focus)]
      [] action = "CycleFocusBackwards" -> [app EXCEPT !.focus = PanePrev(app.focus)]
      [] action = "ToggleHelp" -> [app EXCEPT !.modal = HelpModal_new]
      [] action = "CloseModal" -> [app EXCEPT !.modal = NoModal]

\* mutant: under Help the remaining global actions are not swallowed
handle_key_global_help_passthrough(global_action, app) ==
    IF app.modal.kind = "Help" THEN
        IF global_action \in {Some("CloseModal"), Some("ToggleHelp")}
        THEN Some([app EXCEPT !.modal = NoModal])
        ELSE IF global_action # None
        THEN Some(handle_global_action(global_action[1], app))
        ELSE None
    ELSE IF app.modal.kind = "Emulators" THEN
        IF global_action = Some("CloseModal")
        THEN Some([app EXCEPT !.modal = NoModal])
        ELSE IF global_action = Some("ToggleHelp")
        THEN Some([app EXCEPT !.modal = HelpModal_new])
        ELSE IF global_action = Some("Quit")
        THEN Some([app EXCEPT !.running = FALSE])
        ELSE None
    ELSE IF global_action # None
    THEN Some(handle_global_action(global_action[1], app))
    ELSE None

\* mutant: under the picker the remaining global actions are not swallowed
handle_key_global_picker_passthrough(global_action, app) ==
    IF app.modal.kind = "Help" THEN
        IF global_action \in {Some("CloseModal"), Some("ToggleHelp")}
        THEN Some([app EXCEPT !.modal = NoModal])
        ELSE IF global_action = Some("Quit")
        THEN Some([app EXCEPT !.running = FALSE])
        ELSE None
    ELSE IF app.modal.kind = "Emulators" THEN
        IF global_action = Some("ToggleHelp")
        THEN Some([app EXCEPT !.modal = HelpModal_new])
        ELSE IF global_action # None
        THEN Some(handle_global_action(global_action[1], app))
        ELSE None
    ELSE IF global_action # None
    THEN Some(handle_global_action(global_action[1], app))
    ELSE None

\* mutant: the focus keys are served before the modal is looked at
handle_key_global_cycle_anywhere(global_action, app) ==
    IF global_action \in {Some("CycleFocus"), Some("CycleFocusBackwards")}
    THEN Some(handle_global_action(global_action[1], app))
    ELSE IF app.modal.kind = "Help" THEN
        IF global_action \in {Some("CloseModal"), Some("ToggleHelp")}
        THEN Some([app EXCEPT !.modal = NoModal])
        ELSE IF global_action = Some("Quit")
        THEN Some([app EXCEPT !.running = FALSE])
        ELSE None
    ELSE IF app.modal.kind = "Emulators" THEN
        IF global_action = Some("CloseModal")
        THEN Some([app EXCEPT !.modal = NoModal])
        ELSE IF global_action = Some("ToggleHelp")
        THEN Some([app EXCEPT !.modal = HelpModal_new])
        ELSE IF global_action = Some("Quit")
        THEN Some([app EXCEPT !.running = FALSE])
        ELSE None
    ELSE IF global_action # None
    THEN Some(handle_global_action(global_action[1], app))
    ELSE None

\* mutant: with no modal open only the help and close keys are served
\* before the focused pane
handle_key_global_toggle_only(global_action, app) ==
    IF app.modal.kind = "Help" THEN
        IF global_action \in {Some("CloseModal"), Some("ToggleHelp")}
        THEN Some([app EXCEPT !.modal = NoModal])
        ELSE IF global_action = Some("Quit")
        THEN Some([app EXCEPT !.running = FALSE])
        ELSE None
    ELSE IF app.modal.kind = "Emulators" THEN
        IF global_action = Some("CloseModal")
        THEN Some([app EXCEPT !.modal = NoModal])
        ELSE IF global_action = Some("ToggleHelp")
        THEN Some([app EXCEPT !.modal = HelpModal_new])
        ELSE IF global_action = Some("Quit")
        THEN Some([app EXCEPT !.running = FALSE])
        ELSE None
    ELSE IF global_action \in {Some("ToggleHelp"), Some("CloseModal")}
    THEN Some(handle_global_action(global_action[1], app))
    ELSE None

\* App::handle_key, the arms that return before any component is called:
\* Some(app after the arm), or None when the key is forwarded
handle_key_global(global_action, app) ==
    IF app.modal.kind = "Help" THEN
        IF global_action \in {Some("CloseModal"), Some("ToggleHelp")}
        THEN Some([app EXCEPT !.modal = NoModal])
        ELSE IF global_action = Some("Quit")
        THEN Some([app EXCEPT !.running = FALSE])
        ELSE None
    ELSE IF app.modal.kind = "Emulators" THEN
        IF global_action = Some("CloseModal")
        THEN Some([app EXCEPT !.modal = NoModal])
        ELSE IF global_action = Some("ToggleHelp")
        THEN Some([app EXCEPT !.modal = HelpModal_new])
        ELSE IF global_action = Some("Quit")
        THEN Some([app EXCEPT !.running = FALSE])
        ELSE None
    ELSE IF global_action # None
    THEN Some(handle_global_action(global_action[1], app))
    ELSE None

\* mutant: the open modal is not looked at
forward_target_ignoring_modal(modal_kind, f) == focused_pane(f)

\* mutant: under the picker a key goes to the focused pane
forward_target_pane_under_picker(modal_kind, f) ==
    IF modal_kind = "Help" THEN "Help" ELSE focused_pane(f)

\* App::handle_key, the component whose update gets a forwarded key: the open
\* modal, else the focused pane
forward_target(modal_kind, f) ==
    IF modal_kind = "Help" THEN "Help"
    ELSE IF modal_kind = "Emulators" THEN "Emulators"
    ELSE focused_pane(f)

\* App::handle_key
HandleKey(key) ==
    LET global_action == lookup_global_action(key)
        consumed == handle_key_global(global_action,
                        [running |-> running, focus |-> focus, modal |-> modal])
        target == forward_target(modal.kind, focus)
        msg == MsgKeyPress(key)
        rd == IF target = "DeviceList"
              THEN DevicesPane_update(devices, msg)
              ELSE [pane |-> devices, cmds |-> <<>>]
        rc == IF target = "Content"
              THEN ContentPane_update(content, msg)
              ELSE [pane |-> content, cmds |-> <<>>]
        rm == CASE target = "Help" -> HelpModal_update(modal, msg)
                [] target = "Emulators" -> EmulatorsModal_update(modal, msg)
                [] OTHER -> [modal |-> modal, cmds |-> <<>>]
        cs == rd.cmds \o rc.cmds \o rm.cmds
    IN
    /\ pc = "events"
    /\ pc' = "actions"
    /\ IF consumed # None THEN
          /\ running' = consumed[1].running
          /\ focus' = consumed[1].focus
          /\ modal' = consumed[1].modal
          /\ cmds' = <<>>
          /\ last' = Step("key", Some(key), None, {})
          /\ hist' = PickerHist(hist, consumed[1].modal)
          /\ UNCHANGED <<devices, content, queue>>
       ELSE
          \E bridge \in BridgeOutcomes(cs) :
            LET st == Executed(cs, rm.modal, focus, queue, rd.pane.devices, bridge) IN
            /\ devices' = rd.pane
            /\ content' = rc.pane
            /\ modal' = st.modal
            /\ focus' = st.focus
            /\ queue' = st.queue
            /\ cmds' = cs
            /\ hist' = PickerHist(HistAfter(hist, target = "DeviceList", msg), st.modal)
            /\ last' = [Step("key", Some(key), None, {target} \ {"none"})
                           EXCEPT !.failed = Failures(cs, bridge)]
            /\ UNCHANGED running

\* App::handle_events, Event::Key
EventKey == \E key \in Keys : HandleKey(key)

\* App::handle_events, Event::Tick
EventTick ==
    /\ pc = "events"
    /\ pc' = "actions"
    /\ queue' = Append(queue, MsgTick)
    /\ cmds' = <<>>
    /\ last' = Step("tick", None, None, {})
    /\ UNCHANGED <<running, focus, devices, content, modal, hist>>

\* App::handle_events, Event::Resize and Event::Render: the frame is drawn
\* from the state, nothing is changed
EventRender ==
    /\ pc = "events"
    /\ pc' = "actions"
    /\ cmds' = <<>>
    /\ last' = Step("render", None, None, {})
    /\ UNCHANGED <<appvars, hist>>

\* App::handle_events, no event or one of the ignored events (Init, Error,
\* FocusGained, FocusLost, Paste, Mouse)
EventIgnored ==
    /\ pc = "events"
    /\ pc' = "actions"
    /\ cmds' = <<>>
    /\ last' = Step("ignored", None, None, {})
    /\ UNCHANGED <<appvars, hist>>

\* mutant: the open modal is left out of the broadcast
components_panes_only == <<"DeviceList", "Content">>

\* App::components: the ids of the components a message is broadcast to
components == <<"DeviceList", "Content">> \o
              (IF modal.kind = "None" THEN <<>> ELSE <<modal.kind>>)

\* mutant: the newest message is received first
try_recv_newest(q) == [msg |-> q[Len(q)], rest |-> SubSeq(q, 1, Len(q) - 1)]

\* msg_rx.try_recv() on a channel that holds a message: the oldest message
\* and the messages that stay behind
try_recv(q) == [msg |-> Head(q), rest |-> Tail(q)]

\* App::handle_actions, the for loop over the components: each component's
\* update is called with the message, in order, and the commands collected;
\* st holds the components, the commands so far and the calls made
RECURSIVE broadcast(_, _, _)
broadcast(comps, msg, st) ==
    IF comps = <<>> THEN st
    ELSE LET id == Head(comps)
             called == [st EXCEPT !.calls = Append(@, id)]
             after ==
               CASE id = "DeviceList" ->
                      LET r == DevicesPane_update(st.devices, msg) IN
                      [called EXCEPT !.devices = r.pane, !.cmds = @ \o r.cmds]
                 [] id = "Content" ->
                      LET r == ContentPane_update(st.content, msg) IN
                      [called EXCEPT !.content = r.pane, !.cmds = @ \o r.cmds]
                 [] id = "Help" ->
                      LET r == HelpModal_update(st.modal, msg) IN
                      [called EXCEPT !.modal = r.modal, !.cmds = @ \o r.cmds]
                 [] id = "Emulators" ->
                      LET r == EmulatorsModal_update(st.modal, msg) IN
                      [called EXCEPT !.modal = r.modal, !.cmds = @ \o r.cmds]
         IN broadcast(Tail(comps), msg, after)

\* App::handle_actions, one iteration of the while loop: the oldest message
\* goes to every component, then the collected commands are executed
HandleAction ==
    /\ pc = "actions"
    /\ queue # <<>>
    /\ LET received == try_recv(queue)
           action == received.msg
           r == broadcast(components, action,
                          [devices |-> devices, content |-> content, modal |-> modal,
                           cmds |-> <<>>, calls |-> <<>>])
           cs == r.cmds
       IN
       \E bridge \in BridgeOutcomes(cs) :
         LET st == Executed(cs, r.modal, focus, received.rest, r.devices.devices, bridge) IN
         /\ devices' = r.devices
         /\ content' = r.content
         /\ modal' = st.modal
         /\ focus' = st.focus
         /\ queue' = st.queue
         /\ cmds' = cs
         /\ last' = [Step("msg", None, Some(action),
                          { r.calls[i] : i \in 1..Len(r.calls) })
                        EXCEPT !.calls = r.calls, !.failed = Failures(cs, bridge)]
         /\ hist' = HistAfter(hist, "DeviceList" \in { r.calls[i] : i \in 1..Len(r.calls) },
                              action)
    /\ UNCHANGED <<running, pc>>

\* mutant: handle_actions returns after any message, not when the channel is
\* empty
ActionsDone_early ==
    /\ pc = "actions"
    /\ pc' = IF running THEN "events" ELSE "done"
    /\ cmds' = <<>>
    /\ last' = Step("idle", None, None, {})
    /\ UNCHANGED <<appvars, hist>>

\* mutant: App::run goes on whatever the running flag says
ActionsDone_never_exits ==
    /\ pc = "actions"
    /\ queue = <<>>
    /\ pc' = "events"
    /\ cmds' = <<>>
    /\ last' = Step("idle", None, None, {})
    /\ UNCHANGED <<appvars, hist>>

\* App::handle_actions returns when try_recv finds the channel empty; App::run
\* then leaves the loop if running is false
ActionsDone ==
    /\ pc = "actions"
    /\ queue = <<>>
    /\ pc' = IF running THEN "events" ELSE "done"
    /\ cmds' = <<>>
    /\ last' = Step("idle", None, None, {})
    /\ UNCHANGED <<appvars, hist>>

\* one second passes on the clock behind Instant::now()
Elapse ==
    /\ pc = "events"
    /\ \/ devices.last_refresh < REFRESH_INTERVAL
       \/ content.last_refresh < DEVICE_INFO_REFRESH_INTERVAL
    /\ devices' = [devices EXCEPT !.last_refresh = Min(@ + 1, REFRESH_INTERVAL)]
    /\ content' = [content EXCEPT !.last_refresh = Min(@ + 1, DEVICE_INFO_REFRESH_INTERVAL)]
    /\ cmds' = <<>>
    /\ last' = Step("elapse", None, None, {})
    /\ UNCHANGED <<running, focus, modal, queue, pc, hist>>

Next ==
    \/ EventKey
    \/ EventTick
    \/ EventRender
    \/ EventIgnored
    \/ HandleAction
    \/ ActionsDone
    \/ Elapse

Spec == Init /\ [][Next]_vars

\* the keys that are bound in the EmulatorsModal keymap only, and an unbound one
PickerKeys == { k \in Keys : k.global = NoBinding /\ k.device = NoBinding }

\* the AVD names a command list asks to start
Started(cs) == { cs[i].name : i \in { j \in 1..Len(cs) : cs[j].type = "StartEmulator" } }

\* Component::handle_key of the open EmulatorsModal called directly with a
\* key event (App forwards keys through update; handle_key is the
\* component's other entry point).  The returned commands are recorded, not
\* executed.
EmulatorsHandleKey ==
    /\ pc = "events"
    /\ pc' = "actions"
    /\ modal.kind = "Emulators"
    /\ \E key \in PickerKeys :
         LET r == EmulatorsModal_handle_key(modal, key) IN
         /\ modal' = r.modal
         /\ cmds' = r.cmds
         /\ last' = Step("handle_key", Some(key), None, {"Emulators"})
         /\ hist' = [hist EXCEPT !.launching = @ \cup Started(r.cmds)]
    /\ UNCHANGED <<running, focus, devices, content, queue>>

NextComponents == Next \/ EmulatorsHandleKey

\* the program, plus direct calls of the components' handle_key entry point
SpecComponents == Init /\ [][NextComponents]_vars

\* Component::update of the content pane called with one message, the way
\* App::handle_actions and App::handle_key call it.  The returned commands
\* are recorded, not executed.
ContentUpdateWith(msg) ==
    LET r == ContentPane_update(content, msg) IN
    /\ content' = r.pane
    /\ cmds' = r.cmds
    /\ last' = Step("update", None, Some(msg), {"Content"})
    /\ UNCHANGED <<running, focus, devices, modal, queue, pc, hist>>

\* the content pane's update called with any message of msg.rs
ContentUpdate ==
    \/ ContentUpdateWith(MsgTick)
    \/ \E l \in DeviceLists : ContentUpdateWith(MsgDevicesUpdated(l))
    \/ ContentUpdateWith(MsgDeviceSelected(None))
    \/ \E s \in Serials : ContentUpdateWith(MsgDeviceSelected(Some(Device(s))))
    \/ \E s \in Serials : ContentUpdateWith(MsgDeviceInfoUpdated(DeviceInfo(s)))
    \/ \E key \in PickerKeys : ContentUpdateWith(MsgKeyPress(key))

\* one second passes on the clock behind the content pane's Instant::now()
ContentElapse ==
    /\ content.last_refresh < DEVICE_INFO_REFRESH_INTERVAL
    /\ content' = [content EXCEPT !.last_refresh = @ + 1]
    /\ cmds' = <<>>
    /\ last' = Step("elapse", None, None, {})
    /\ UNCHANGED <<running, focus, devices, modal, queue, pc, hist>>

NextContent == ContentUpdate \/ ContentElapse

\* the content pane on its own, fed every message in every order
SpecContent == Init /\ [][NextContent]_vars

\* the commands behind which a bridge call can fail, for the targets at hand
BridgeCommands ==
    { CmdStartEmulator(n) : n \in AvdNames }
        \cup { CmdKillEmulator(s) : s \in EmulatorSerials }
        \cup { CmdDisconnectDevice(s) : s \in TcpSerials }

\* App::execute_commands called with a bridge command, alone or next to a
\* RefreshDevices, the way App::handle_key and App::handle_actions call it
\* with the commands a component returned
ExecuteCommands ==
    /\ pc = "events"
    /\ pc' = "actions"
    /\ \E c \in BridgeCommands :
         \E cs \in {<<c>>, <<c, CmdRefreshDevices>>, <<CmdRefreshDevices, c>>} :
           \E bridge \in BridgeOutcomes(cs) :
             LET st == Executed(cs, modal, focus, queue, devices.devices, bridge) IN
             /\ modal' = st.modal
             /\ focus' = st.focus
             /\ queue' = st.queue
             /\ cmds' = cs
             /\ last' = [Step("execute", None, None, {})
                            EXCEPT !.failed = Failures(cs, bridge)]
    /\ UNCHANGED <<running, devices, content, hist>>

NextExecutor == ExecuteCommands \/ HandleAction \/ ActionsDone

\* App::execute_commands called with the bridge commands, followed by the
\* loop of App::handle_actions that delivers what the commands enqueued
SpecExecutor == Init /\ [][NextExecutor]_vars

\* the devices avds_with_status is called with: the devices of the
\* roster and a second emulator
PickerDevices ==
    { Device(s) : s \in Serials }
        \cup { [serial |-> "emulator-5556", connection_type |-> "Emulator"] }

\* duplicate-free device lists of up to MaxLen of these devices
PickerDeviceLists ==
    { l \in UNION { [1..n -> PickerDevices] : n \in 0..MaxLen } :
        \A i, j \in 1..Len(l) : l[i].serial = l[j].serial => i = j }

\* what adb -s <serial> emu avd name would answer for each of the devices
PickerAnswers == [{ d.serial : d \in PickerDevices } -> {None} \cup { Some(n) : n \in AvdNames }]

\* AdbClient::avds_with_status called with a device list, for every outcome
\* of list_avds and get_avd_name; the result is shown by a new picker, which
\* is built while no modal is open
AvdsWithStatus ==
    /\ modal = NoModal
    /\ \E devs \in PickerDeviceLists, names \in AvdNameLists, answers \in PickerAnswers :
         /\ modal' = EmulatorsModal_new(avds_with_status(devs, names, answers))
         /\ last' = [Step("avds_with_status", None, None, {})
                        EXCEPT !.args = Some([devices |-> devs, names |-> names,
                                              answers |-> answers])]
    /\ cmds' = <<>>
    /\ UNCHANGED <<running, focus, devices, content, queue, pc, hist>>

NextAvds == AvdsWithStatus

\* the roster join on its own, over every input
SpecAvds == Init /\ [][NextAvds]_vars

(***************************************************************************)
(* Telemetry parsing (adb/device_info.rs)                                  *)
(***************************************************************************)
\* the most lines of one diagnostic output
MaxLines == 3

\* one line of a diagnostic output, trimmed: "<key>: <val>"
Line(key, val) == [key |-> key, val |-> val]

\* the decimal numerals that occur in the outputs
Decimal ==
    [s \in {"0", "1", "2", "3", "4", "5", "45", "72", "300"} |->
        CASE s = "0" -> 0 [] s = "1" -> 1 [] s = "2" -> 2 [] s = "3" -> 3
          [] s = "4" -> 4 [] s = "5" -> 5 [] s = "45" -> 45 [] s = "72" -> 72
          [] s = "300" -> 300]

\* val.trim().parse::<u8>().ok()
parse_u8(s) ==
    IF s \in DOMAIN Decimal /\ Decimal[s] < 2^8 THEN Some(Decimal[s]) ELSE None

\* val.trim().parse::<u32>().ok()
parse_u32(s) ==
    IF s \in DOMAIN Decimal /\ Decimal[s] \div 2^16 < 2^16 THEN Some(Decimal[s]) ELSE None

\* the loop of parse_battery: every level, status and plugged line assigns
\* its variable anew
RECURSIVE scan_battery(_, _)
scan_battery(lines, acc) ==
    IF lines = <<>> THEN acc
    ELSE LET line == Head(lines) IN
         scan_battery(Tail(lines),
             IF line.key = "level" THEN [acc EXCEPT !.level = parse_u8(line.val)]
             ELSE IF line.key = "status" THEN [acc EXCEPT !.status_code = parse_u32(line.val)]
             ELSE IF line.key = "plugged" THEN [acc EXCEPT !.plugged = parse_u32(line.val)]
             ELSE acc)

unwrap_or(opt, default) == IF opt = None THEN default ELSE opt[1]

\* the match on status_code.unwrap_or(0), and on plugged.unwrap_or(0)
status_str(status_code, plugged) ==
    LET code == unwrap_or(status_code, 0)
        plug == unwrap_or(plugged, 0)
    IN
    CASE code = 2 -> CASE plug = 1 -> "charging (AC)"
                       [] plug = 2 -> "charging (USB)"
                       [] plug = 4 -> "charging (Wireless)"
                       [] OTHER -> "charging (USB)"
      [] code = 3 -> "discharging"
      [] code = 5 -> "full"
      [] code = 4 -> "not charging"
      [] OTHER -> "unknown"

BatteryInfo(level, status) == [level |-> level, status |-> status]

\* parse_battery
parse_battery(output) ==
    LET acc == scan_battery(output, [level |-> None, status_code |-> None, plugged |-> None])
    IN
    IF acc.level = None THEN None
    ELSE Some(BatteryInfo(acc.level[1], status_str(acc.status_code, acc.plugged)))

\* the lines of adb shell dumpsys battery: level, status and plugged lines
\* with values that parse and values that do not, and a line of another key
BatteryLines ==
    { Line("level", v) : v \in {"72", "300", "x"} }
        \cup { Line("status", v) : v \in {"1", "2", "3", "4", "5", "x"} }
        \cup { Line("plugged", v) : v \in {"0", "1", "2", "4", "x"} }
        \cup { Line("health", "2") }

BatteryOutputs == UNION { [1..n -> BatteryLines] : n \in 0..MaxLines }

\* parse_battery called on an output
ParseBattery ==
    /\ last.op = "new"
    /\ \E output \in BatteryOutputs :
         last' = [Step("parse_battery", None, None, {})
                    EXCEPT !.args = Some([output |-> output,
                                          battery |-> parse_battery(output)])]
    /\ UNCHANGED <<running, focus, devices, content, modal, queue, pc, cmds, hist>>

NextBattery == ParseBattery

\* the battery parser on its own, over every output
SpecBattery == Init /\ [][NextBattery]_vars

\* GetpropResult::default
GetpropResult_default ==
    [model |-> "", android_version |-> "", api_level |-> "", abi |-> "", locale |-> ""]

\* parse_getprop: a line is [key]: [value]; lines of other keys are skipped
\* and the locale is taken from the first of its two properties
RECURSIVE parse_getprop_from(_, _)
parse_getprop_from(lines, result) ==
    IF lines = <<>> THEN result
    ELSE LET key == Head(lines).key
             value == Head(lines).val
         IN
         parse_getprop_from(Tail(lines),
             CASE key = "ro.build.version.release" -> [result EXCEPT !.android_version = value]
               [] key = "ro.build.version.sdk" -> [result EXCEPT !.api_level = value]
               [] key = "ro.product.cpu.abi" -> [result EXCEPT !.abi = value]
               [] key \in {"persist.sys.locale", "ro.product.locale"} ->
                    IF result.locale = "" THEN [result EXCEPT !.locale = value] ELSE result
               [] key = "ro.product.model" -> [result EXCEPT !.model = value]
               [] OTHER -> result)

parse_getprop(output) == parse_getprop_from(output, GetpropResult_default)

\* str::parse::<f64>().ok() on the columns of df and the values of meminfo,
\* in kB
parse_f64(s) ==
    CASE s = "57542652" -> Some(57542652)
      [] s = "23456789" -> Some(23456789)
      [] s = "7890000" -> Some(7890000)
      [] s = "3456000" -> Some(3456000)
      [] OTHER -> None

\* parse_storage: the first line after the header with four columns or more
\* decides; the sizes are kept in kB (the code divides both by 1048576.0)
RECURSIVE parse_storage_from(_)
parse_storage_from(lines) ==
    IF lines = <<>> THEN None
    ELSE LET parts == Head(lines) IN
         IF Len(parts) >= 4
         THEN IF parse_f64(parts[2]) = None \/ parse_f64(parts[3]) = None THEN None
              ELSE Some([total_kb |-> parse_f64(parts[2])[1],
                         used_kb |-> parse_f64(parts[3])[1]])
         ELSE parse_storage_from(Tail(lines))

parse_storage(output) == IF output = <<>> THEN None ELSE parse_storage_from(Tail(output))

\* the loop of parse_ram
RECURSIVE scan_ram(_, _)
scan_ram(lines, acc) ==
    IF lines = <<>> THEN acc
    ELSE LET line == Head(lines) IN
         scan_ram(Tail(lines),
             IF line.key = "MemTotal" THEN [acc EXCEPT !.total_kb = parse_f64(line.val)]
             ELSE IF line.key = "MemAvailable"
                  THEN [acc EXCEPT !.available_kb = parse_f64(line.val)]
             ELSE acc)

\* parse_ram, in kB
parse_ram(output) ==
    LET acc == scan_ram(output, [total_kb |-> None, available_kb |-> None]) IN
    IF acc.total_kb = None \/ acc.available_kb = None THEN None
    ELSE Some([total_kb |-> acc.total_kb[1],
               used_kb |-> acc.total_kb[1] - acc.available_kb[1]])

\* size.replace('x', "\u{00d7}")
replace_x(size) == IF size = "1080x2400" THEN "1080×2400" ELSE size

\* parse_screen_size: the first Physical size line
RECURSIVE parse_screen_size(_)
parse_screen_size(output) ==
    IF output = <<>> THEN None
    ELSE IF Head(output).key = "Physical size" THEN Some(replace_x(Head(output).val))
    ELSE parse_screen_size(Tail(output))

\* parse_screen_density: the first Physical density line
RECURSIVE parse_screen_density(_)
parse_screen_density(output) ==
    IF output = <<>> THEN None
    ELSE IF Head(output).key = "Physical density" THEN Some(Head(output).val \o "dpi")
    ELSE parse_screen_density(Tail(output))

\* the loop of parse_wifi: a mWifiInfo line is read while no SSID is known;
\* val holds the tokens after "SSID: " and "IP: ", if the line has them
RECURSIVE scan_wifi(_, _)
scan_wifi(lines, acc) ==
    IF lines = <<>> THEN acc
    ELSE LET line == Head(lines) IN
         scan_wifi(Tail(lines),
             IF acc.ssid = None /\ line.key = "mWifiInfo"
             THEN [ssid |-> IF line.val.ssid # None
                               /\ line.val.ssid[1] \notin {"", "<unknown ssid>"}
                            THEN line.val.ssid ELSE acc.ssid,
                   ip |-> IF line.val.ip # None /\ line.val.ip[1] \notin {"", "0.0.0.0"}
                          THEN line.val.ip ELSE acc.ip]
             ELSE acc)

\* parse_wifi: always a value
parse_wifi(output) ==
    LET acc == scan_wifi(output, [ssid |-> None, ip |-> None]) IN
    Some([ssid |-> unwrap_or(acc.ssid, "N/A"), ip |-> unwrap_or(acc.ip, "N/A")])

\* Result<String> of run_for_device
Err == [ok |-> FALSE]

Ok(text) == [ok |-> TRUE, text |-> text]

\* run_for_device(..).unwrap_or_default(): a failed call reads as no output
unwrap_or_default(r) == IF r.ok THEN r.text ELSE <<>>

\* Result::ok
Result_ok(r) == IF r.ok THEN Some(r.text) ELSE None

\* Device::display_name: model.replace('_', " "), or the serial
display_name(device) ==
    IF device.model # None
    THEN (IF device.model[1] = "Pixel_3" THEN "Pixel 3" ELSE device.model[1])
    ELSE device.serial

\* text, or "N/A" for an empty one
or_na(text) == IF text = "" THEN "N/A" ELSE text

\* mutant: no screen without a density
screen_needs_density(size, density) ==
    IF size # None /\ density # None
    THEN Some([resolution |-> size[1], density |-> density[1]])
    ELSE None

\* the match on (size, density) in fetch_device_info
screen(size, density) ==
    IF size # None /\ density # None
    THEN Some([resolution |-> size[1], density |-> density[1]])
    ELSE IF size # None
    THEN Some([resolution |-> size[1], density |-> "N/A"])
    ELSE None

\* AdbClient::fetch_device_info; out gives the result of run_for_device
\* for each of the seven subcommands
fetch_device_info(device, out) ==
    LET props == parse_getprop(unwrap_or_default(out.getprop)) IN
    Ok([serial |-> device.serial,
        model |-> IF props.model # "" THEN props.model ELSE display_name(device),
        android_version |-> or_na(props.android_version),
        api_level |-> or_na(props.api_level),
        state |-> device.state,
        connection_type |-> CASE device.connection_type = "Usb" -> "USB"
                              [] device.connection_type = "Tcp" -> "TCP"
                              [] device.connection_type = "Emulator" -> "Emulator",
        abi |-> or_na(props.abi),
        locale |-> or_na(props.locale),
        battery |-> IF Result_ok(out.battery) = None THEN None ELSE parse_battery(Result_ok(out.battery)[1]),
        storage |-> IF Result_ok(out.storage) = None THEN None ELSE parse_storage(Result_ok(out.storage)[1]),
        ram |-> IF Result_ok(out.ram) = None THEN None ELSE parse_ram(Result_ok(out.ram)[1]),
        screen |-> screen(IF Result_ok(out.size) = None THEN None
                          ELSE parse_screen_size(Result_ok(out.size)[1]),
                          IF Result_ok(out.density) = None THEN None
                          ELSE parse_screen_density(Result_ok(out.density)[1])),
        wifi |-> IF Result_ok(out.wifi) = None THEN None ELSE parse_wifi(Result_ok(out.wifi)[1])])

\* the devices telemetry is fetched for: every serial, with and without a
\* model in the listing, online and offline
InfoDevices ==
    { [serial |-> s, connection_type |-> ConnectionTypeOf(s), model |-> m, state |-> st] :
        s \in Serials, m \in {None, Some("Pixel_3")}, st \in {"device", "offline"} }

\* outputs of adb shell getprop: all five properties, and one without model
\* and release where the locale comes from its second property
GetpropOutputs ==
    { <<>>,
      << Line("ro.build.version.release", "14"), Line("ro.build.version.sdk", "34"),
         Line("ro.product.cpu.abi", "arm64-v8a"), Line("persist.sys.locale", "en-US"),
         Line("ro.product.locale", "de-DE"), Line("ro.product.model", "Pixel 7"),
         Line("some.other.prop", "value") >>,
      << Line("ro.build.version.sdk", "34"), Line("ro.product.locale", "de-DE") >> }

\* outputs of dumpsys battery: one with a level, one without
BatteryTexts ==
    { << Line("status", "2"), Line("level", "72"), Line("plugged", "2") >>,
      << Line("status", "3") >> }

\* outputs of df /data: with a data line, and the header alone
StorageOutputs ==
    { << <<"Filesystem", "1K-blocks", "Used", "Available", "Use%", "Mounted", "on">>,
         <<"/dev/block/dm-0", "57542652", "23456789", "34085863", "41%", "/data">> >>,
      << <<"Filesystem", "1K-blocks", "Used", "Available", "Use%", "Mounted", "on">> >> }

\* outputs of cat /proc/meminfo: complete, and without MemAvailable
RamOutputs ==
    { << Line("MemTotal", "7890000"), Line("MemFree", "234000"),
         Line("MemAvailable", "3456000") >>,
      << Line("MemTotal", "7890000") >> }

\* outputs of wm size and wm density: with the line asked for, and without
SizeOutputs == { << Line("Physical size", "1080x2400") >>, <<>> }

DensityOutputs == { << Line("Physical density", "420") >>, <<>> }

\* outputs of dumpsys wifi: connected, and not connected
WifiOutputs ==
    { << Line("mWifiInfo", [ssid |-> Some("MyNetwork"), ip |-> Some("192.168.1.5")]) >>,
      << Line("mWifiInfo", [ssid |-> Some("<unknown ssid>"), ip |-> Some("0.0.0.0")]) >> }

Results(outputs) == {Err} \cup { Ok(text) : text \in outputs }

\* every combination of failing and answering subcommands
InfoOutcomes ==
    [getprop : Results(GetpropOutputs), battery : Results(BatteryTexts),
     storage : Results(StorageOutputs), ram : Results(RamOutputs),
     size : Results(SizeOutputs), density : Results(DensityOutputs),
     wifi : Results(WifiOutputs)]

\* fetch_device_info called for a device, under every outcome
FetchDeviceInfo ==
    /\ last.op = "new"
    /\ \E device \in InfoDevices, out \in InfoOutcomes :
         last' = [Step("fetch_device_info", None, None, {})
                    EXCEPT !.args = Some([device |-> device, out |-> out,
                                          result |-> fetch_device_info(device, out)])]
    /\ UNCHANGED <<running, focus, devices, content, modal, queue, pc, cmds, hist>>

NextInfo == FetchDeviceInfo

\* telemetry assembly on its own, over every device and outcome
SpecInfo == Init /\ [][NextInfo]_vars

TypeOK ==
    /\ running \in BOOLEAN
    /\ focus \in Panes
    /\ pc \in {"events", "actions", "done"}
    /\ modal.kind \in {"None", "Help", "Emulators"}
    /\ devices.devices \in DeviceLists
    /\ Len(queue) <= 3

(***************************************************************************)
(* Properties                                                              *)
(***************************************************************************)
InRange(index, len) == IF len = 0 THEN index = 0 ELSE index \in 0..(len - 1)

\* the last step was the broadcast of a message of the given type
Handled(type) == last.op = "msg" /\ last.msg[1].type = type

\* the last step was a key press that the device pane's update turned into action
PaneKey(action) ==
    /\ last.op = "key"
    /\ "DeviceList" \in last.recv
    /\ last.key[1].device = action

\* how many DeviceSelected commands the last step issued
DeviceSelectedCount == Cardinality({ i \in 1..Len(cmds) : cmds[i].type = "DeviceSelected" })

\* the serial under the device pane's cursor
Cursor == serial_of(selected_device(devices))

Contains(devs, serial) == \E i \in 1..Len(devs) : devs[i].serial = serial

\* C1: every list cursor (device pane, emulator picker) is in [0, len-1] when
\* its list is non-empty and is 0 when the list is empty, whatever keys,
\* ticks and list replacements were handled.
C1_CursorInRange ==
    /\ InRange(devices.selected_index, Len(devices.devices))
    /\ modal.kind = "Emulators" => InRange(modal.selected_index, Len(modal.items))

\* a DevicesUpdated carried a list too short for the old index, which was
\* clamped to the new last position
C1_Witness ==
    /\ Handled("DevicesUpdated")
    /\ devices.devices # <<>>
    /\ last.selected_index > Len(devices.devices) - 1
    /\ devices.selected_index = Len(devices.devices) - 1

\* C2: a key pressed while the Help modal is open reaches neither the device
\* pane's nor the content pane's update; no pane changes and no command is
\* issued because of it.
C2_HelpKeysReachNoPane ==
    [][(pc = "events" /\ modal.kind = "Help" /\ last'.op = "key")
         => /\ last'.recv \cap {"DeviceList", "Content"} = {}
            /\ devices' = devices
            /\ content' = content
            /\ cmds' = <<>>]_vars

\* Down, bound in the device keymap only, was pressed under Help with the
\* device pane focused and a device below the cursor
C2_Witness ==
    /\ last.op = "key"
    /\ last.modal = "Help"
    /\ last.focus = "DeviceList"
    /\ last.key[1].global = NoBinding
    /\ last.key[1].device = "Down"
    /\ devices.selected_index + 1 < Len(devices.devices)

\* C3: handling DevicesUpdated emits DeviceSelected iff the serial at the new
\* selected index (absent for an empty list) differs from the recorded
\* selected serial; whether the index moved plays no part.
C3_EmitsIffKeyDiffers ==
    Handled("DevicesUpdated") =>
        /\ DeviceSelectedCount \in {0, 1}
        /\ DeviceSelectedCount = 1 <=> Cursor # last.last_selected_serial

\* the index moved and yet nothing was emitted: the recorded serial is under
\* the cursor at its new position
C3_Witness ==
    /\ Handled("DevicesUpdated")
    /\ devices.selected_index # last.selected_index
    /\ Cursor # None
    /\ DeviceSelectedCount = 0

\* C4: on DevicesUpdated(newList) the new index is 0 for an empty newList and
\* min(previous index, len(newList) - 1) otherwise; the index never follows
\* the previously selected serial.
C4_IndexIsClampedMin ==
    Handled("DevicesUpdated") =>
        /\ devices.devices = last.msg[1].devices
        /\ devices.selected_index =
              IF devices.devices = <<>> THEN 0
              ELSE Min(last.selected_index, Len(devices.devices) - 1)

\* the previously selected serial is still in the list, at another position
\* than the cursor
C4_Witness ==
    /\ Handled("DevicesUpdated")
    /\ last.cursor # None
    /\ Contains(devices.devices, last.cursor[1])
    /\ Cursor # last.cursor
    /\ last.selected_index > 0

\* the last step handled a DevicesUpdated whose list lacks the serial that
\* was under the cursor
StaleSelection ==
    /\ Handled("DevicesUpdated")
    /\ last.cursor # None
    /\ ~Contains(devices.devices, last.cursor[1])

\* C5 as stated: when a DevicesUpdated list no longer contains the serial of
\* the previously selected device, the selected index becomes 0.
C5_Original == StaleSelection => devices.selected_index = 0

\* C5 amended: when a DevicesUpdated list no longer contains the serial of
\* the previously selected device, the selected index becomes
\* min(previous index, len - 1), and 0 when the list is now empty; it is 0
\* only if the previous index was 0 or the new list has at most one device.
C5_StaleIndexIsClamped ==
    StaleSelection =>
        /\ devices.selected_index =
              IF devices.devices = <<>> THEN 0
              ELSE Min(last.selected_index, Len(devices.devices) - 1)
        /\ devices.selected_index = 0 <=>
              (last.selected_index = 0 \/ Len(devices.devices) <= 1)

\* the selected device disappeared and the cursor was pulled back to 0
C5_Witness ==
    /\ StaleSelection
    /\ last.selected_index > 0
    /\ devices.devices # <<>>
    /\ devices.selected_index = 0

\* the one DeviceSelected command of the last step carries the device under
\* the cursor
EmitsCursorOnce ==
    /\ DeviceSelectedCount = 1
    /\ \A i \in 1..Len(cmds) :
         cmds[i].type = "DeviceSelected" => cmds[i].device = selected_device(devices)

\* C6 as stated: when a DevicesUpdated list no longer contains the serial of
\* the previously selected device, exactly one DeviceSelected is emitted,
\* carrying the device now under the cursor (no device for an empty list).
C6_Original == StaleSelection => EmitsCursorOnce

\* C6 amended: as stated, except that a pane that has not recorded a
\* selection yet (freshly constructed, no Up, Down or DevicesUpdated handled
\* before) emits nothing when the new list is empty.
C6_StaleSelectionReNotified ==
    StaleSelection =>
        IF last.last_selected_serial = None /\ devices.devices = <<>>
        THEN DeviceSelectedCount = 0 /\ ~last.handled
        ELSE EmitsCursorOnce

\* the selected device disappeared from a non-empty list and another device
\* took its index
C6_Witness ==
    /\ StaleSelection
    /\ last.handled
    /\ last.selected_index > 0
    /\ devices.selected_index = last.selected_index
    /\ EmitsCursorOnce

\* the last step was an Up, a Down or a DevicesUpdated handled by the device pane
CursorMessage == PaneKey("Up") \/ PaneKey("Down") \/ Handled("DevicesUpdated")

\* C7 as stated: Up, Down and DevicesUpdated emit one DeviceSelected iff the
\* serial under the cursor after the message differs from the serial under
\* the cursor before it, in every reachable state.
C7_Original ==
    CursorMessage =>
        /\ DeviceSelectedCount \in {0, 1}
        /\ DeviceSelectedCount = 1 <=> Cursor # last.cursor

\* C7 amended: Up, Down and DevicesUpdated emit one DeviceSelected iff the
\* serial under the cursor after the message differs from the recorded
\* selected serial.  Once the pane has handled an Up, Down or DevicesUpdated
\* the recorded serial is the serial under the cursor, so from then on one
\* is emitted exactly per change of the selected device; a freshly built
\* pane records nothing, so its first Up, Down or DevicesUpdated emits
\* whenever it leaves a device under the cursor, changed or not.
C7_EmitsOncePerRecordedChange ==
    /\ CursorMessage =>
          /\ DeviceSelectedCount \in {0, 1}
          /\ DeviceSelectedCount = 1 <=> Cursor # last.last_selected_serial
          /\ last.handled => last.last_selected_serial = last.cursor
          /\ ~last.handled => last.last_selected_serial = None
    /\ hist.handled => devices.last_selected_serial = Cursor

\* Up at index 0 of a pane that had handled messages before: nothing emitted
C7_Witness ==
    /\ PaneKey("Up")
    /\ last.handled
    /\ last.selected_index = 0
    /\ Cursor # None
    /\ DeviceSelectedCount = 0

\* C8: a DevicesUpdated carrying the list the previous DevicesUpdated
\* carried, with no Up or Down in between, emits no DeviceSelected and
\* leaves index and recorded serial as they were.
C8_SameRosterTwiceIsSilent ==
    (Handled("DevicesUpdated") /\ last.fed /\ last.same_roster) =>
        /\ DeviceSelectedCount = 0
        /\ devices.selected_index = last.selected_index
        /\ devices.last_selected_serial = last.last_selected_serial

\* the same non-empty roster arrived twice in a row
C8_Witness ==
    /\ Handled("DevicesUpdated")
    /\ last.fed
    /\ last.same_roster
    /\ Len(devices.devices) >= 2
    /\ devices.selected_index > 0

\* how many DeviceSelected messages wait in the queue
QueuedSelections == Cardinality({ i \in 1..Len(queue) : queue[i].type = "DeviceSelected" })

\* the last step handled a DevicesUpdated carrying exactly the device with
\* this serial while the pane's list was empty and nothing was selected
FirstDevice(serial) ==
    /\ Handled("DevicesUpdated")
    /\ last.cursor = None
    /\ last.last_selected_serial = None
    /\ last.msg[1].devices = <<Device(serial)>>

\* the last step delivered DeviceSelected for this serial to the content pane,
\* which now has it selected
SelectionDelivered(serial) ==
    /\ Handled("DeviceSelected")
    /\ last.msg[1].device = Some(Device(serial))
    /\ "Content" \in last.recv
    /\ content.selected_serial = Some(serial)

\* q2 is q with messages appended
IsExtension(q, q2) == Len(q2) >= Len(q) /\ SubSeq(q2, 1, Len(q)) = q

\* C9: from an empty list with nothing selected, a DevicesUpdated carrying
\* one device selects it and enqueues exactly one DeviceSelected for it; a
\* queued message leaves the queue only by being delivered to the device and
\* content panes (a DeviceSelected making its device the content pane's
\* selection), and the loop neither awaits an event nor exits while a
\* message waits; a later DevicesUpdated carrying the same one-device list
\* enqueues no DeviceSelected.
C9_FirstDeviceAnnouncedOnce ==
    /\ [](\A serial \in Serials :
            FirstDevice(serial) =>
                /\ selected_device(devices) = Some(Device(serial))
                /\ devices.last_selected_serial = Some(serial)
                /\ cmds = <<CmdDeviceSelected(Some(Device(serial)))>>
                /\ QueuedSelections = 1
                /\ queue[Len(queue)] = MsgDeviceSelected(Some(Device(serial))))
    /\ [][~IsExtension(queue, queue') =>
            /\ queue # <<>>
            /\ IsExtension(Tail(queue), queue')
            /\ last'.op = "msg"
            /\ last'.msg = Some(Head(queue))
            /\ {"DeviceList", "Content"} \subseteq last'.recv
            /\ Head(queue).type = "DeviceSelected" =>
                  content'.selected_serial = serial_of(Head(queue).device)]_vars
    /\ [](pc # "actions" => queue = <<>>)
    /\ []((Handled("DevicesUpdated") /\ last.handled /\ last.same_roster
              /\ Len(devices.devices) = 1)
            => (DeviceSelectedCount = 0 /\ QueuedSelections = 0))

\* the announcement of the first device reached the content pane
C9_Witness ==
    /\ \E serial \in Serials : SelectionDelivered(serial) /\ devices.devices = <<Device(serial)>>
    /\ last.fed
    /\ content.device_info = None

PickerKeyStep == pc = "events" /\ modal.kind = "Emulators" /\ last'.op \in {"key", "handle_key"}

\* C11 as stated: under the Emulators picker every key other than list up,
\* list down, select, kill and close, ToggleHelp and Quit included, leaves
\* running, focus, modal and the components unchanged and issues no command.
C11_Original ==
    [][(PickerKeyStep /\ last'.key[1].emulator = NoBinding
          /\ last'.key[1].global # "CloseModal")
         => (UNCHANGED appvars /\ cmds' = <<>>)]_vars

\* C11 amended: under the Emulators picker the only keys that have any
\* effect are those for list up, list down, select, kill and close, plus
\* ToggleHelp, which replaces the picker by Help, and Quit, which clears the
\* running flag; every other key, CycleFocus and device-pane keys included,
\* leaves running, focus, modal and the components unchanged and issues no
\* command.  The list keys touch nothing but the picker's cursor and issue
\* only picker commands.
C11_PickerAcceptsListCloseHelpQuit ==
    [][PickerKeyStep =>
         LET key == last'.key[1] IN
         IF last'.op = "key" /\ key.global = "CloseModal"
         THEN /\ modal' = NoModal
              /\ cmds' = <<>>
              /\ UNCHANGED <<running, focus, devices, content, queue>>
         ELSE IF last'.op = "key" /\ key.global = "ToggleHelp"
         THEN /\ modal' = HelpModal_new
              /\ cmds' = <<>>
              /\ UNCHANGED <<running, focus, devices, content, queue>>
         ELSE IF last'.op = "key" /\ key.global = "Quit"
         THEN /\ running' = FALSE
              /\ cmds' = <<>>
              /\ UNCHANGED <<focus, devices, content, modal, queue>>
         ELSE IF key.emulator = NoBinding
         THEN UNCHANGED appvars /\ cmds' = <<>>
         ELSE /\ UNCHANGED <<running, focus, devices, content, queue>>
              /\ modal'.kind = "Emulators"
              /\ modal'.items = modal.items
              /\ \A i \in 1..Len(cmds') :
                   cmds'[i].type \in {"KillEmulator", "StartEmulator",
                                      "CloseEmulatorsModal", "Focus"}]_vars

\* CycleFocus, also bound to Down in the device keymap, was pressed under
\* the picker and dropped
C11_Witness ==
    /\ last.op = "key"
    /\ last.modal = "Emulators"
    /\ last.key[1].global = "CycleFocus"
    /\ last.key[1].device = "Down"
    /\ last.key[1].emulator = NoBinding
    /\ modal.kind = "Emulators"
    /\ focus = last.focus
    /\ running

\* C12: while Help or the Emulators picker is open, a CycleFocus or
\* CycleFocusBackwards key press leaves the focus where it was.
C12_NoFocusCycleUnderModal ==
    [][(pc = "events" /\ modal.kind # "None" /\ last'.op = "key"
          /\ last'.key[1].global \in {"CycleFocus", "CycleFocusBackwards"})
         => focus' = focus]_vars

\* CycleFocusBackwards was pressed under Help with the content pane focused
C12_Witness ==
    /\ last.op = "key"
    /\ last.modal = "Help"
    /\ last.key[1].global = "CycleFocusBackwards"
    /\ last.focus = "Content"
    /\ focus = "Content"

C14_Original ==
    /\ focused_pane(focus) # "none"
    /\ (last.op = "key" /\ last.modal = "None" /\ last.key[1].global = "CycleFocus")
         => /\ last.focus = "DeviceList" => focus = "Content"
            /\ last.focus = "Content" => focus = "DeviceList"

\* what App::handle_global_action does to running, focus and modal
GlobalEffect(g) ==
    /\ running' = (running /\ g # "Quit")
    /\ modal' = IF g = "ToggleHelp" THEN HelpModal_new
                ELSE IF g = "CloseModal" THEN NoModal ELSE modal
    /\ focus' = IF g = "CycleFocus" THEN PaneNext(focus)
                ELSE IF g = "CycleFocusBackwards" THEN PanePrev(focus) ELSE focus

\* C15: with no modal open a key that resolves to a global action is handled
\* globally and is never given to the focused pane's update, even if the
\* pane's own keymap binds it: no pane changes, no command is issued.
C15_GlobalBeforeFocus ==
    [][(pc = "events" /\ modal.kind = "None" /\ last'.op = "key"
          /\ last'.key[1].global \in GlobalActions)
         => /\ last'.recv = {}
            /\ UNCHANGED <<devices, content, queue>>
            /\ cmds' = <<>>
            /\ GlobalEffect(last'.key[1].global)]_vars

\* ToggleHelp, also bound to Down in the device keymap, opened Help and did
\* not move the device pane's cursor
C15_Witness ==
    /\ last.op = "key"
    /\ last.modal = "None"
    /\ last.focus = "DeviceList"
    /\ last.key[1].global = "ToggleHelp"
    /\ last.key[1].device = "Down"
    /\ modal.kind = "Help"
    /\ devices.selected_index = last.selected_index
    /\ devices.selected_index + 1 < Len(devices.devices)

\* C16 as stated: a key bound in the open modal's keymap is handled by the
\* modal even if it is also a global binding, and with no modal open a key
\* bound in the focused pane's keymap is handled by that pane even if it is
\* also a global binding.
C16_Original ==
    [][(pc = "events" /\ last'.op = "key")
         => /\ (modal.kind = "Emulators" /\ last'.key[1].emulator # NoBinding)
                 => last'.recv = {"Emulators"}
            /\ (modal.kind = "None" /\ focus = "DeviceList"
                  /\ last'.key[1].device # NoBinding)
                 => last'.recv = {"DeviceList"}]_vars

\* C16 amended: key input is captured in the order open modal, global
\* bindings, focused pane.  While a modal is open no pane gets the key; the
\* global actions CloseModal, ToggleHelp and Quit fire even if the modal's
\* keymap binds the key too, and every other key goes to the modal alone.
\* With no modal open a key with a global binding fires the global action
\* even if the focused pane's keymap binds it too; the focused pane (device
\* list or content) handles a key only when no global action claims it.
C16_CaptureOrder ==
    [][(pc = "events" /\ last'.op = "key")
         => LET g == last'.key[1].global IN
            IF modal.kind # "None"
            THEN /\ UNCHANGED <<devices, content>>
                 /\ IF g \in {"CloseModal", "ToggleHelp", "Quit"}
                    THEN last'.recv = {} /\ (running' # running \/ modal' # modal)
                    ELSE last'.recv = {modal.kind} /\ UNCHANGED running
            ELSE IF g \in GlobalActions
                 THEN last'.recv = {} /\ GlobalEffect(g)
                 ELSE /\ last'.recv = {focus} \cap {"DeviceList", "Content"}
                      /\ UNCHANGED running]_vars

\* Quit, also bound to Up in the picker's keymap, was pressed under the
\* picker: the program stops and the picker did not get the key
C16_Witness ==
    /\ last.op = "key"
    /\ last.modal = "Emulators"
    /\ last.key[1].global = "Quit"
    /\ last.key[1].emulator = "Up"
    /\ last.recv = {}
    /\ ~running

\* C17: messages are delivered in the order they were enqueued: a step that
\* delivers a message delivers the oldest one and removes exactly it, and
\* every step only adds messages behind the ones that wait.
C17_FifoDelivery ==
    [][/\ last'.op = "msg" =>
            /\ queue # <<>>
            /\ last'.msg = Some(Head(queue))
            /\ IsExtension(Tail(queue), queue')
       /\ last'.op # "msg" => IsExtension(queue, queue')]_vars

\* DevicesUpdated was delivered before the DeviceInfoUpdated enqueued after
\* it; the DeviceSelected it produced waits behind that one
C17_Witness ==
    /\ Handled("DevicesUpdated")
    /\ Len(queue) >= 2
    /\ queue[1].type = "DeviceInfoUpdated"
    /\ queue[2].type = "DeviceSelected"

\* how many elements of a sequence of messages or commands have the type
CountType(seq, type) == Cardinality({ i \in 1..Len(seq) : seq[i].type = type })

\* C18: a message enqueued by a command is not delivered in the step that
\* executes the command: the step applies each component's update once, to
\* the message it took, and leaves the new messages behind the waiting ones;
\* the device list and the telemetry change only in a step that delivers a
\* queued DevicesUpdated, DeviceInfoUpdated or DeviceSelected.
C18_ResultsAreQueued ==
    [][/\ devices'.devices # devices.devices =>
            /\ last'.op = "msg"
            /\ queue # <<>>
            /\ Head(queue) = MsgDevicesUpdated(devices'.devices)
       /\ content'.device_info # content.device_info =>
            /\ last'.op = "msg"
            /\ queue # <<>>
            /\ Head(queue).type \in {"DeviceInfoUpdated", "DeviceSelected"}
       /\ last'.op \in {"msg", "key"} =>
            LET rest == IF last'.op = "msg" THEN Tail(queue) ELSE queue
                new == SubSeq(queue', Len(rest) + 1, Len(queue'))
            IN
            /\ IsExtension(rest, queue')
            /\ CountType(new, "DeviceSelected") = CountType(cmds', "DeviceSelected")
            /\ CountType(new, "DeviceInfoUpdated") <= CountType(cmds', "RefreshDeviceInfo")
            /\ CountType(new, "DevicesUpdated") <= CountType(cmds', "RefreshDevices")
            /\ CountType(new, "Tick") = 0
            /\ last'.op = "msg" =>
                 /\ devices' = DevicesPane_update(devices, Head(queue)).pane
                 /\ content' = ContentPane_update(content, Head(queue)).pane]_vars

\* the DeviceSelected produced by a DevicesUpdated waits at the end of the
\* queue and the content pane has not seen it
C18_Witness ==
    /\ Handled("DevicesUpdated")
    /\ DeviceSelectedCount = 1
    /\ queue # <<>>
    /\ queue[Len(queue)] = MsgDeviceSelected(selected_device(devices))
    /\ content.selected_serial # Cursor

\* how often a component id occurs in a sequence of update calls
Occurrences(seq, id) == Cardinality({ i \in 1..Len(seq) : seq[i] = id })

\* C19: a message taken from the queue is delivered exactly once to the
\* device pane, to the content pane and to the open modal if there is one,
\* and to nobody else; a modal that is not open receives nothing.
C19_BroadcastReachesEachActiveOnce ==
    last.op = "msg" =>
        /\ Occurrences(last.calls, "DeviceList") = 1
        /\ Occurrences(last.calls, "Content") = 1
        /\ \A m \in {"Help", "Emulators"} :
             Occurrences(last.calls, m) = IF last.modal = m THEN 1 ELSE 0
        /\ Len(last.calls) = IF last.modal = "None" THEN 2 ELSE 3

\* a Tick was broadcast while the picker was open
C19_Witness ==
    /\ Handled("Tick")
    /\ last.modal = "Emulators"
    /\ Occurrences(last.calls, "Emulators") = 1
    /\ modal.kind = "Emulators"

\* the step about to be taken gives the content pane's update a message of
\* the given type
ContentGets(type) ==
    /\ last'.op \in {"msg", "update"}
    /\ "Content" \in last'.recv
    /\ last'.msg[1].type = type

\* C20: telemetry held by the content pane belongs to its selected device:
\* whenever the pane holds telemetry, the telemetry's serial is the selected
\* serial; a DeviceSelected with another serial discards the held telemetry
\* and a DeviceInfoUpdated for another serial than the selected one is
\* ignored.
C20_TelemetryBelongsToSelection ==
    /\ [](content.device_info # None =>
            content.selected_serial = Some(content.device_info[1].serial))
    /\ [][/\ (ContentGets("DeviceSelected")
                /\ serial_of(last'.msg[1].device) # content.selected_serial)
               => /\ content'.device_info = None
                  /\ content'.selected_serial = serial_of(last'.msg[1].device)
          /\ (ContentGets("DeviceInfoUpdated")
                /\ Some(last'.msg[1].info.serial) # content.selected_serial)
               => /\ content' = content
                  /\ cmds' = <<>>]_vars

\* a DeviceInfoUpdated for a device that is no longer the selected one
\* arrived and the telemetry of the selected device stayed
C20_Witness ==
    /\ last.op = "update"
    /\ last.msg[1].type = "DeviceInfoUpdated"
    /\ content.device_info # None
    /\ content.device_info[1].serial # last.msg[1].info.serial
    /\ content.selected_serial = Some(content.device_info[1].serial)

\* the messages the step about to be taken appends to the queue
Appended ==
    LET rest == IF last'.op = "msg" THEN Tail(queue) ELSE queue IN
    SubSeq(queue', Len(rest) + 1, Len(queue'))

\* how many RefreshDeviceInfo commands of a list name a device of the list
InfoRequests(cs, devs) ==
    Cardinality({ i \in 1..Len(cs) :
                    cs[i].type = "RefreshDeviceInfo" /\ Contains(devs, cs[i].serial) })

\* C21: a failed bridge call behind RefreshDevices, StartEmulator,
\* KillEmulator or DisconnectDevice is swallowed where the command is
\* executed: no message is enqueued for it, no list, selection, telemetry,
\* focus or modal changes, the other commands of the list are executed all
\* the same and the loop keeps running.
C21_BridgeFailureIsSwallowed ==
    [][(last'.op \in {"key", "msg", "execute"}
          /\ (last'.failed.refresh \/ last'.failed.call))
         => /\ running' = running
            /\ pc' = "actions"
            /\ focus' = focus
            /\ modal' = modal
            /\ devices'.devices = devices.devices
            /\ devices'.selected_index = devices.selected_index
            /\ devices'.last_selected_serial = devices.last_selected_serial
            /\ content'.device_info = content.device_info
            /\ content'.selected_serial = content.selected_serial
            /\ CountType(Appended, "DevicesUpdated") =
                  IF last'.failed.refresh THEN 0 ELSE CountType(cmds', "RefreshDevices")
            /\ CountType(Appended, "DeviceInfoUpdated") =
                  InfoRequests(cmds', devices'.devices)
            /\ CountType(Appended, "DeviceSelected") = CountType(cmds', "DeviceSelected")
            /\ CountType(Appended, "Tick") = 0
            /\ CountType(Appended, "KeyPress") = 0]_vars

\* start_emulator failed and the RefreshDevices behind it was executed
C21_Witness ==
    /\ last.op = "execute"
    /\ last.failed.call
    /\ ~last.failed.refresh
    /\ cmds = <<CmdStartEmulator("Pixel_4"), CmdRefreshDevices>>
    /\ queue # <<>>
    /\ queue[Len(queue)].type = "DevicesUpdated"
    /\ pc = "actions"

\* the Tick about to be delivered finds the device pane's refresh due
TickDue ==
    /\ last'.op = "msg"
    /\ last'.msg[1].type = "Tick"
    /\ devices.last_refresh >= REFRESH_INTERVAL

\* C22: on Tick the device pane emits exactly one RefreshDevices if at least
\* REFRESH_INTERVAL has elapsed since its timer was reset and none
\* otherwise; emitting resets the timer whether or not the refresh
\* succeeds, nothing else resets it, and no RefreshDevices is issued except
\* by a due Tick or the Refresh key: a failed refresh is retried on the
\* first Tick one interval later.
C22_TickRefreshOncePerInterval ==
    [][/\ (last'.op = "msg" /\ last'.msg[1].type = "Tick") =>
            IF devices.last_refresh >= REFRESH_INTERVAL
            THEN /\ CountType(cmds', "RefreshDevices") = 1
                 /\ devices'.last_refresh = 0
            ELSE /\ CountType(cmds', "RefreshDevices") = 0
                 /\ devices'.last_refresh = devices.last_refresh
       /\ devices'.last_refresh # devices.last_refresh =>
            \/ last'.op = "elapse" /\ devices'.last_refresh = devices.last_refresh + 1
            \/ TickDue /\ devices'.last_refresh = 0
       /\ CountType(cmds', "RefreshDevices") > 0 =>
            \/ TickDue
            \/ /\ last'.op = "key"
               /\ "DeviceList" \in last'.recv
               /\ last'.key[1].device = "Refresh"]_vars

\* a due Tick asked for a refresh, the refresh failed, the timer was reset
C22_Witness ==
    /\ Handled("Tick")
    /\ CountType(cmds, "RefreshDevices") = 1
    /\ last.failed.refresh
    /\ devices.last_refresh = 0
    /\ CountType(queue, "DevicesUpdated") = 0

\* C23: the device list of the device pane changes only when the pane
\* handles DevicesUpdated, and then becomes the list of the message; key
\* presses, Tick, DeviceSelected, DeviceInfoUpdated and the execution of
\* any command, a successful KillEmulator or DisconnectDevice included,
\* leave it as it was.
C23_ListChangesOnlyOnDevicesUpdated ==
    [][IF last'.op = "msg" /\ last'.msg[1].type = "DevicesUpdated"
       THEN devices'.devices = last'.msg[1].devices
       ELSE devices'.devices = devices.devices]_vars

\* the emulator under the cursor was killed successfully and is still listed
C23_Witness ==
    /\ PaneKey("Disconnect")
    /\ cmds = <<CmdKillEmulator("emulator-5554")>>
    /\ ~last.failed.call
    /\ Cursor = Some("emulator-5554")

\* the keys App::handle_key can forward to a component
ForwardedKeys == { k \in Keys : k.global = NoBinding }

\* C24: a component's update is a no-op on a message it does not recognize:
\* the device pane on DeviceSelected, DeviceInfoUpdated and a key outside its
\* keymap, the content pane on KeyPress and DevicesUpdated, the Help modal on
\* anything; it returns no commands and the component is unchanged, in every
\* state the component can be in.
C24_UnrecognizedIsNoOp ==
    /\ \A d \in {None} \cup { Some(Device(s)) : s \in Serials } :
         DevicesPane_update(devices, MsgDeviceSelected(d)) = [pane |-> devices, cmds |-> <<>>]
    /\ \A s \in Serials :
         DevicesPane_update(devices, MsgDeviceInfoUpdated(DeviceInfo(s)))
             = [pane |-> devices, cmds |-> <<>>]
    /\ \A k \in ForwardedKeys :
         /\ k.device = NoBinding =>
              DevicesPane_update(devices, MsgKeyPress(k)) = [pane |-> devices, cmds |-> <<>>]
         /\ ContentPane_update(content, MsgKeyPress(k)) = [pane |-> content, cmds |-> <<>>]
         /\ modal.kind = "Help" =>
              HelpModal_update(modal, MsgKeyPress(k)) = [modal |-> modal, cmds |-> <<>>]
    /\ \A l \in DeviceLists :
         /\ ContentPane_update(content, MsgDevicesUpdated(l)) = [pane |-> content, cmds |-> <<>>]
         /\ modal.kind = "Help" =>
              HelpModal_update(modal, MsgDevicesUpdated(l)) = [modal |-> modal, cmds |-> <<>>]
    /\ modal.kind = "Help" =>
         HelpModal_update(modal, MsgTick) = [modal |-> modal, cmds |-> <<>>]
    /\ (Handled("DeviceSelected") \/ Handled("DeviceInfoUpdated")) =>
         /\ devices.selected_index = last.selected_index
         /\ devices.last_selected_serial = last.last_selected_serial
         /\ \A i \in 1..Len(cmds) : cmds[i].type = "RefreshDeviceInfo"
         /\ last.modal = "Help" => modal = HelpModal_new

\* a DeviceInfoUpdated was broadcast under Help: the content pane took it,
\* the device pane and the Help modal did not recognize it
C24_Witness ==
    /\ Handled("DeviceInfoUpdated")
    /\ last.modal = "Help"
    /\ modal.kind = "Help"
    /\ content.device_info # None
    /\ cmds = <<>>

C26_DisconnectByKind ==
    [][(last'.op = "key" /\ "DeviceList" \in last'.recv
          /\ last'.key[1].device = "Disconnect")
         => /\ devices' = devices
            /\ LET device == selected_device(devices) IN
               cmds' = IF device = None THEN <<>>
                       ELSE IF device[1].serial \in EmulatorSerials
                            THEN <<[type |-> "KillEmulator", serial |-> device[1].serial]>>
                       ELSE IF device[1].serial \in TcpSerials
                            THEN <<[type |-> "DisconnectDevice", serial |-> device[1].serial]>>
                       ELSE <<>>]_vars

\* Disconnect was pressed on a USB device and nothing was issued
C26_Witness ==
    /\ PaneKey("Disconnect")
    /\ Cursor = Some("USB001")
    /\ selected_device(devices)[1].connection_type = "Usb"
    /\ cmds = <<>>

\* the last step called avds_with_status; its arguments and its result
AvdsCalled == last.op = "avds_with_status"

AvdsArgs == last.args[1]

AvdsResult == modal.items

Distinct(seq) == \A i, j \in 1..Len(seq) : seq[i] = seq[j] => i = j

\* the names the emulators of the device list answered the name query with
ReportedNames(devs, answers) ==
    { answers[devs[i].serial][1] :
        i \in { j \in 1..Len(devs) :
                  devs[j].connection_type = "Emulator" /\ answers[devs[j].serial] # None } }

\* C27: with pairwise distinct declared names the joined emulator list never
\* holds two entries of the same name: the declared names come first, one
\* entry each, a running emulator whose name is declared is merged into that
\* entry, and each undeclared reported name gets one entry however many
\* emulators report it.
C27_NoDuplicateNames ==
    (AvdsCalled /\ Distinct(AvdsArgs.names)) =>
        LET names == [i \in 1..Len(AvdsResult) |-> AvdsResult[i].name]
            reported == ReportedNames(AvdsArgs.devices, AvdsArgs.answers)
            declared == { AvdsArgs.names[i] : i \in 1..Len(AvdsArgs.names) }
        IN
        /\ Distinct(names)
        /\ SubSeq(names, 1, Len(AvdsArgs.names)) = AvdsArgs.names
        /\ Len(AvdsResult) = Len(AvdsArgs.names) + Cardinality(reported \ declared)

\* two running emulators reported the same undeclared name: one entry
C27_Witness ==
    /\ AvdsCalled
    /\ Len(AvdsArgs.devices) = 2
    /\ \A i \in 1..2 : /\ AvdsArgs.devices[i].connection_type = "Emulator"
                       /\ AvdsArgs.answers[AvdsArgs.devices[i].serial] = Some("Pixel_6")
    /\ AvdsArgs.names = <<"Pixel_4">>
    /\ Len(AvdsResult) = 2

\* C28: an entry of the joined list carries a running serial iff some device
\* of kind Emulator in the device list answered the name query with the
\* entry's name, and the serial is that of such a device; a device whose
\* query fails contributes neither entry nor serial, and the answers USB and
\* TCP devices would give play no part.
C28_RunningIffEmulatorReportsName ==
    AvdsCalled =>
        LET devs == AvdsArgs.devices
            answers == AvdsArgs.answers
            declared == { AvdsArgs.names[i] : i \in 1..Len(AvdsArgs.names) }
        IN
        /\ \A i \in 1..Len(AvdsResult) :
             LET avd == AvdsResult[i] IN
             /\ avd.running_serial # None <=> avd.name \in ReportedNames(devs, answers)
             /\ avd.running_serial # None =>
                  \E j \in 1..Len(devs) :
                     /\ devs[j].serial = avd.running_serial[1]
                     /\ devs[j].connection_type = "Emulator"
                     /\ answers[devs[j].serial] = Some(avd.name)
        /\ { AvdsResult[i].name : i \in 1..Len(AvdsResult) }
              = declared \cup ReportedNames(devs, answers)

\* a TCP device that would answer with a declared name, and an emulator
\* whose query failed: the declared entry is not running
C28_Witness ==
    /\ AvdsCalled
    /\ AvdsArgs.names = <<"Pixel_4">>
    /\ \E i, j \in 1..Len(AvdsArgs.devices) :
         /\ AvdsArgs.devices[i].connection_type = "Tcp"
         /\ AvdsArgs.answers[AvdsArgs.devices[i].serial] = Some("Pixel_4")
         /\ AvdsArgs.devices[j].connection_type = "Emulator"
         /\ AvdsArgs.answers[AvdsArgs.devices[j].serial] = None
    /\ AvdsResult = <<Avd("Pixel_4", None)>>

\* the last step called parse_battery; its output text and its result
BatteryCalled == last.op = "parse_battery"

BatteryOutput == last.args[1].output

BatteryResult == last.args[1].battery

\* the value of the last line of a key that parses as a number, if any
LastCode(output, key) ==
    LET at == { i \in 1..Len(output) : output[i].key = key } IN
    IF at = {} THEN None
    ELSE parse_u32(output[CHOOSE i \in at : \A j \in at : j <= i].val)

\* the label the claim gives to a status code and a plug code
BatteryLabel(status_code, plugged) ==
    IF status_code = Some(2)
    THEN IF plugged = Some(1) THEN "charging (AC)"
         ELSE IF plugged = Some(4) THEN "charging (Wireless)"
         ELSE "charging (USB)"
    ELSE IF status_code = Some(3) THEN "discharging"
    ELSE IF status_code = Some(4) THEN "not charging"
    ELSE IF status_code = Some(5) THEN "full"
    ELSE "unknown"

\* C30 as stated: the battery status label is a total function of the status
\* and plug codes (2 with plug 1, 2, 4 gives charging (AC), (USB),
\* (Wireless), 2 with any other or no plug code charging (USB), 3
\* discharging, 4 not charging, 5 full, anything else unknown), and a
\* battery value is produced if and only if a parsable level line is
\* present in the output.
C30_Original ==
    BatteryCalled =>
        /\ BatteryResult # None <=>
             \E i \in 1..Len(BatteryOutput) :
                /\ BatteryOutput[i].key = "level"
                /\ parse_u8(BatteryOutput[i].val) # None
        /\ BatteryResult # None =>
             BatteryResult[1].status
                = BatteryLabel(LastCode(BatteryOutput, "status"),
                               LastCode(BatteryOutput, "plugged"))

\* the last step called fetch_device_info; its arguments and its result
InfoCalled == last.op = "fetch_device_info"

InfoDevice == last.args[1].device

InfoOut == last.args[1].out

InfoResult == last.args[1].result

\* the result of the same call had subcommand k failed
InfoWithout(k) == fetch_device_info(InfoDevice, [InfoOut EXCEPT ![k] = Err])

\* what every failure does to the record apart from the property dump, whose
\* effect on the text fields is given by model: each of battery, storage,
\* RAM and Wi-Fi loses its own field only; a failing size query loses the
\* screen, and the screen is absent only when the size query gave no size; a
\* failing density query alone leaves the screen with density "N/A"
FailuresAreLocal(model) ==
    LET info == InfoResult.text IN
    /\ InfoResult.ok
    /\ \A k \in {"battery", "storage", "ram", "wifi"} :
         InfoWithout(k) = Ok([info EXCEPT ![k] = None])
    /\ InfoWithout("size") = Ok([info EXCEPT !.screen = None])
    /\ info.screen = None <=>
         (Result_ok(InfoOut.size) = None
            \/ parse_screen_size(Result_ok(InfoOut.size)[1]) = None)
    /\ InfoWithout("density")
         = Ok([info EXCEPT !.screen = IF @ = None THEN None
                                      ELSE Some([@[1] EXCEPT !.density = "N/A"])])
    /\ InfoWithout("getprop")
         = Ok([info EXCEPT !.model = model, !.android_version = "N/A",
                           !.api_level = "N/A", !.abi = "N/A", !.locale = "N/A"])

\* C29 as stated: telemetry assembly is never aborted, each failure makes
\* only its own optional field absent, and a failed property dump makes the
\* text fields, the model among them, "N/A".
C29_Original ==
    InfoCalled => FailuresAreLocal("N/A")

\* C29: telemetry assembly is never aborted by a failing diagnostic: under
\* every combination of failing subcommands a record is returned; each
\* failure makes only its own optional field absent (battery, storage, RAM,
\* Wi-Fi; the screen is absent iff the size query gives no size, and a
\* failing density query alone yields density "N/A"); a failed property dump
\* makes android_version, api_level, abi and locale "N/A" and makes model
\* the device's display name; no failure changes any other field.
C29_FailuresAreLocal ==
    InfoCalled => FailuresAreLocal(display_name(InfoDevice))

\* property dump, battery and density failed and the rest answered: the
\* record has the other fields, density "N/A" and the display name as model
C29_Witness ==
    /\ InfoCalled
    /\ ~InfoOut.getprop.ok /\ ~InfoOut.battery.ok /\ ~InfoOut.density.ok
    /\ InfoOut.storage.ok /\ InfoOut.ram.ok /\ InfoOut.size.ok /\ InfoOut.wifi.ok
    /\ InfoDevice.model = Some("Pixel_3")
    /\ InfoResult.ok
    /\ InfoResult.text.model = "Pixel 3"
    /\ InfoResult.text.android_version = "N/A"
    /\ InfoResult.text.battery = None
    /\ InfoResult.text.storage # None
    /\ InfoResult.text.screen = Some([resolution |-> "1080×2400", density |-> "N/A"])

\* C31: whenever the queue is empty and the device pane has handled at least
\* one Up, Down or DevicesUpdated, the content pane's selected serial is the
\* serial of the device under the device-list cursor, both absent when the
\* list is empty.
C31_ContentTracksCursor ==
    (queue = <<>> /\ hist.handled) => content.selected_serial = Cursor

\* the cursor was moved by a key to the second device and the queue has
\* drained: the content pane is on that device
C31_Witness ==
    /\ queue = <<>>
    /\ pc = "events"
    /\ hist.handled
    /\ ~hist.fed
    /\ devices.selected_index = 1
    /\ Cursor = Some("USB001")
    /\ content.selected_serial = Some("USB001")

\* the place of a message kind in the chain Tick -> DevicesUpdated ->
\* DeviceSelected -> DeviceInfoUpdated
ChainRank(type) ==
    CASE type = "Tick" -> 3
      [] type = "DevicesUpdated" -> 2
      [] type = "DeviceSelected" -> 1
      [] type = "DeviceInfoUpdated" -> 0

\* a bound on the messages still to be handled on account of one message of
\* a kind, itself included
ChainWeight(type) ==
    CASE type = "Tick" -> 5
      [] type = "DevicesUpdated" -> 3
      [] type = "DeviceSelected" -> 2
      [] type = "DeviceInfoUpdated" -> 1

RECURSIVE QueueWeight(_)
QueueWeight(q) == IF q = <<>> THEN 0 ELSE ChainWeight(Head(q).type) + QueueWeight(Tail(q))

\* C32: draining the queue always terminates: a step of the drain takes the
\* oldest message and enqueues only messages of a later kind of the chain
\* Tick -> DevicesUpdated -> DeviceSelected -> DeviceInfoUpdated, whatever
\* the bridge returns, so the weight of the queue, a natural number, falls
\* with every step; only these four kinds are ever queued and no event is
\* read while a message waits.
C32_DrainTerminates ==
    /\ [](\A i \in 1..Len(queue) :
             queue[i].type \in {"Tick", "DevicesUpdated", "DeviceSelected",
                                "DeviceInfoUpdated"})
    /\ [](queue # <<>> => pc = "actions")
    /\ [][pc = "actions" /\ queue # <<>> =>
            /\ last'.op = "msg"
            /\ last'.msg = Some(Head(queue))
            /\ \A i \in 1..Len(Appended) :
                  ChainRank(Appended[i].type) < ChainRank(Head(queue).type)
            /\ QueueWeight(queue') < QueueWeight(queue)]_vars

\* a Tick was handled with both timers due: a roster and the telemetry of
\* the selected device wait in the queue
C32_Witness ==
    /\ Handled("Tick")
    /\ Len(queue) = 2
    /\ queue[1].type = "DevicesUpdated"
    /\ queue[2].type = "DeviceInfoUpdated"

\* the steps of App::handle_events that read an external event
ExternalEvents == {"key", "tick", "render", "ignored"}

\* C33: whenever the control loop awaits the next external event the queue
\* is empty: an event is read only from an empty queue, handle_actions
\* returns only on an empty queue, and every message enqueued in between, the
\* follow-ups included, is handled before the next event is read.
C33_QueueEmptyWhenAwaiting ==
    /\ [](pc = "events" => queue = <<>>)
    /\ [][last'.op \in ExternalEvents =>
            (pc = "events" /\ queue = <<>> /\ pc' = "actions")]_vars
    /\ [][(pc = "actions" /\ pc' # "actions") =>
            (queue = <<>> /\ queue' = <<>> /\ last'.op = "idle")]_vars
    /\ [][(pc = "actions" /\ pc' = "actions") =>
            (queue # <<>> /\ last'.op = "msg")]_vars

\* the loop awaits an event after an iteration in which a selection and the
\* telemetry that followed it were both handled
C33_Witness ==
    /\ pc = "events"
    /\ last.op = "idle"
    /\ queue = <<>>
    /\ hist.handled
    /\ content.selected_serial = Some("USB001")
    /\ content.device_info = Some(DeviceInfo("USB001"))

\* the state App::execute_commands leaves after running cs in the state
\* about to be left; the commands of the picker make no bridge call whose
\* outcome is read
AfterCommands(cs, m) ==
    Executed(cs, m, focus, queue, devices.devices,
             Bridge(None, <<>>, [s \in EmulatorSerials |-> None], TRUE))

\* C34 as stated: with the Emulators picker open, a key bound in the
\* picker's keymap to Up, Down, Select or Kill and not bound globally, read
\* by the dispatch loop, makes the picker perform the bound action: the
\* picker's cursor moves, or the StartEmulator, KillEmulator or
\* close-and-focus commands of the action are executed.
C34_Original ==
    [][(pc = "events" /\ modal.kind = "Emulators" /\ last'.op = "key"
          /\ last'.key[1].global = NoBinding
          /\ last'.key[1].emulator \in EmulatorActions)
         => LET r == EmulatorsModal_handle_key(modal, last'.key[1]) IN
            /\ cmds' = r.cmds
            /\ modal' = AfterCommands(r.cmds, r.modal).modal
            /\ focus' = AfterCommands(r.cmds, r.modal).focus]_vars

\* the image under the picker's cursor
Highlighted(m) ==
    IF m.selected_index < Len(m.items) THEN Some(m.items[m.selected_index + 1]) ELSE None

C36_PickerOpensFromDeviceListOnly ==
    /\ [][HasCmd(cmds', "OpenEmulatorsModal") =>
            /\ modal = NoModal
            /\ focus = "DeviceList"
            /\ last'.op = "key"
            /\ last'.recv = {"DeviceList"}
            /\ modal'.kind = "Emulators"]_vars
    /\ [][(modal'.kind = "Emulators" /\ modal' # modal) =>
            (modal = NoModal /\ focus = "DeviceList"
               /\ cmds' = <<[type |-> "OpenEmulatorsModal"]>>)]_vars

\* the OpenEmulators key was pressed on the device list and the picker
\* opened on a running emulator
C36_Witness ==
    /\ last.op = "key"
    /\ last.modal = "None"
    /\ last.focus = "DeviceList"
    /\ cmds = <<CmdOpenEmulatorsModal>>
    /\ modal.kind = "Emulators"
    /\ Len(modal.items) = 1
    /\ modal.items[1].running_serial = Some("emulator-5554")

\* C37: when a DevicesUpdated makes the device list empty while a device
\* was selected, the device pane announces the empty selection and nothing
\* else; once the queue has drained the content pane has no selected serial
\* and no telemetry; and no RefreshDeviceInfo command is issued, at once or
\* on a later Tick, for as long as the list stays empty.
C37_EmptyListStopsTelemetry ==
    /\ [][(last'.op = "msg" /\ last'.msg[1].type = "DevicesUpdated"
             /\ last'.msg[1].devices = <<>> /\ devices.last_selected_serial # None)
            => (cmds' = <<[type |-> "DeviceSelected", device |-> None]>>
                  /\ queue'[Len(queue')] = [type |-> "DeviceSelected", device |-> None])]_vars
    /\ []((devices.devices = <<>> /\ hist.handled /\ queue = <<>>)
            => (content.selected_serial = None /\ content.device_info = None))
    /\ [][(devices.devices = <<>> /\ devices'.devices = <<>>)
            => ~HasCmd(cmds', "RefreshDeviceInfo")]_vars
    /\ [][content'.selected_serial = None => ~HasCmd(cmds', "RefreshDeviceInfo")]_vars

\* a DevicesUpdated has just emptied the list under a selected device whose
\* telemetry the content pane still shows
C37_Witness ==
    /\ Handled("DevicesUpdated")
    /\ devices.devices = <<>>
    /\ last.last_selected_serial = Some("USB001")
    /\ cmds = <<CmdDeviceSelected(None)>>
    /\ content.selected_serial = Some("USB001")
    /\ content.device_info # None

\* C38: after a key bound to Quit is handled with no modal open the running
\* flag is false, and it never becomes true again; the loop reads no further
\* event: it drains the queue of that iteration and exits.
C38_QuitStopsTheLoop ==
    /\ [][(last'.op = "key" /\ modal = NoModal /\ last'.key[1].global = "Quit")
            => (~running' /\ cmds' = <<>> /\ queue' = queue)]_vars
    /\ [][~running => ~running']_vars
    /\ [](~running => pc # "events")
    /\ [][(~running /\ pc = "actions") =>
            IF queue = <<>> THEN pc' = "done" ELSE (last'.op = "msg" /\ pc' = "actions")]_vars
    /\ [][pc = "done" => UNCHANGED vars]_vars

\* Quit was pressed with no modal open and the loop has exited
C38_Witness ==
    /\ pc = "done"
    /\ ~running
    /\ modal = NoModal
    /\ queue = <<>>

====
